---- MODULE Spec2Model ----
(***************************************************************************)
(* Live modality-fusion pipeline of media-analysis-with-generative-ai:     *)
(* ChunkMonitor hands chunks to FusionAnalyzer, whose worker threads send  *)
(* one request per chunk to the model and merge the answered actions into  *)
(* the cumulative chapter/topic structure, finalize chapters, start clip   *)
(* extraction and prune the conversation history.                          *)
(*                                                                         *)
(* Times are whole seconds.  Chapter id n stands for "h<n>", topic id n    *)
(* for "t<n>".  A topic keeps id, start_time, end_time and chunks; the     *)
(* summary text plays no part in any operation modelled here.  Answers of  *)
(* the model that parse follow the response contract (a new_topic carries  *)
(* summary, times and a non-empty chunk list), so the result printer does  *)
(* not raise.                                                              *)
(***************************************************************************)
EXTENDS Integers, Sequences, FiniteSets, TLC

\* ---------------------------------------------------------------- bounds
NumChunks == 3
MaxStarts == 2
MaxStops == 1

\* ------------------------------------------------------ program constants
chunk_duration == 20
IdWidth == 4
None == -1

ChunkIds == 0 .. (NumChunks - 1)
Workers == 1 .. MaxStarts
KeepChoices == {None, 0, 1}

VARIABLES
    chunk_files,          \* number of chunk files written so far (ids 0..n-1)
    processed_chunks,     \* ChunkMonitor.processed_chunks
    analysis_queue,       \* FusionAnalyzer.analysis_queue (FIFO of requests)
    is_running,           \* FusionAnalyzer.is_running
    shutdown_timeout,     \* FusionAnalyzer._shutdown_timeout
    worker_thread,        \* index of the thread held in self.worker_thread (0: none)
    w_pc,                 \* position of each worker thread
    w_req,                \* request a worker is analysing
    messages,             \* FusionAnalyzer.messages
    analysis_results,     \* FusionAnalyzer.analysis_results (chunk_id -> result)
    finalized_chapters,   \* FusionAnalyzer.finalized_chapters
    keep_n_chapters,      \* FusionAnalyzer.keep_n_chapters
    clips_started,        \* chapter ids handed to _create_chapter_clips so far
    stop_pc,              \* position of the thread running stop_analysis
    stops,                \* number of stop_analysis calls so far
    nH, nT,               \* chapter / topic ids the model has issued so far
    hist,                 \* record of what happened (observation only)
    call                  \* one call of a function of the program: its
                          \* arguments and, once it has run, what it gave

vars == <<chunk_files, processed_chunks, analysis_queue, is_running,
          shutdown_timeout, worker_thread, w_pc, w_req, messages,
          analysis_results, finalized_chapters, keep_n_chapters,
          clips_started, stop_pc, stops, nH, nT, hist, call>>

\* ------------------------------------------------------------ sequences
SeqToSet(s) == {s[i] : i \in 1 .. Len(s)}

Max(S) == CHOOSE x \in S : \A y \in S : y <= x

\* ------------------------------------------------ chunk identifier text
RECURSIVE Digits(_)
Digits(n) == IF n < 10 THEN <<n>> ELSE Append(Digits(n \div 10), n % 10)

RECURSIVE PadLeft(_, _)
PadLeft(d, w) == IF Len(d) >= w THEN d ELSE PadLeft(<<0>> \o d, w)

\* f"{chunk_id:04d}"
Fmt04(n) == PadLeft(Digits(n), IdWidth)

IsPrefix(p, s) == Len(p) <= Len(s) /\ SubSeq(s, 1, Len(p)) = p

\* f"chunk_{keep_id:04d}" in text, for the text of the user message of msg_chunk
IdentifierInText(keep_id, msg_chunk) == IsPrefix(Fmt04(keep_id), Fmt04(msg_chunk))

\* --------------------------------------------------------------- actions
NewChapterAct(h) ==
    [type |-> "new_chapter", id |-> h, chapter_id |-> 0, keys |-> {},
     start_time |-> 0, end_time |-> 0, chunks |-> <<>>]

NewTopicAct(t, h, s, e, cs) ==
    [type |-> "new_topic", id |-> t, chapter_id |-> h,
     keys |-> {"start_time", "end_time", "chunks"},
     start_time |-> s, end_time |-> e, chunks |-> cs]

UpdateTopicAct(t, ks, s, e, cs) ==
    [type |-> "update_topic", id |-> t, chapter_id |-> 0, keys |-> ks,
     start_time |-> s, end_time |-> e, chunks |-> cs]

\* ------------------------------------------------- chapters and topics
ChapterIdsOf(chapters) == {chapters[i].id : i \in 1 .. Len(chapters)}

TopicIdsOf(chapters) ==
    UNION {{chapters[i].topics[j].id : j \in 1 .. Len(chapters[i].topics)} :
           i \in 1 .. Len(chapters)}

\* chapter and topic ids of a structure, tagged by kind
IdsOf(chapters) ==
    {<<"h", x>> : x \in ChapterIdsOf(chapters)} \cup
    {<<"t", x>> : x \in TopicIdsOf(chapters)}

\* the sequence of chapter ids, in order
ChapterIdSeq(chapters) == [i \in 1 .. Len(chapters) |-> chapters[i].id]

\* chunk ids listed by the topics of the given chapters
ChunksOf(chapters) ==
    UNION {UNION {SeqToSet(chapters[i].topics[j].chunks) :
                  j \in 1 .. Len(chapters[i].topics)} :
           i \in 1 .. Len(chapters)}

\* positions <<chapter index, topic index>> of all topics
TopicPositions(chapters) ==
    UNION {{<<i, j>> : j \in 1 .. Len(chapters[i].topics)} :
           i \in 1 .. Len(chapters)}

PosLeq(p, q) == p[1] < q[1] \/ (p[1] = q[1] /\ p[2] <= q[2])

\* topic_map built from the copied previous structure: the dict keeps, for
\* each id, the position written last in iteration order
TopicMapOf(chapters) ==
    LET occ == TopicPositions(chapters)
        idAt(p) == chapters[p[1]].topics[p[2]].id
    IN  [x \in TopicIdsOf(chapters) |->
            CHOOSE p \in occ : idAt(p) = x /\
                \A q \in occ : idAt(q) = x => PosLeq(q, p)]

\* one action of the response applied to <<chapters, topic_map>>
ApplyAction(st, a) ==
    LET chapters == st.chapters
        topic_map == st.topic_map
    IN  IF a.type = "new_chapter" THEN
            [chapters |-> Append(chapters, [id |-> a.id, topics |-> <<>>]),
             topic_map |-> topic_map]
        ELSE IF a.type = "new_topic" THEN
            LET found == {i \in 1 .. Len(chapters) : chapters[i].id = a.chapter_id}
            IN  IF found = {} THEN st
                ELSE LET chapter_idx == CHOOSE i \in found : \A k \in found : i <= k
                         new_topic == [id |-> a.id, start_time |-> a.start_time,
                                       end_time |-> a.end_time, chunks |-> a.chunks]
                         topics2 == Append(chapters[chapter_idx].topics, new_topic)
                     IN  [chapters |-> [chapters EXCEPT ![chapter_idx].topics = topics2],
                          topic_map |-> (a.id :> <<chapter_idx, Len(topics2)>>) @@ topic_map]
        ELSE IF a.type = "update_topic" THEN
            IF a.id \in DOMAIN topic_map THEN
                LET h_idx == topic_map[a.id][1]
                    t_idx == topic_map[a.id][2]
                    topic == chapters[h_idx].topics[t_idx]
                    patched ==
                        [id |-> topic.id,
                         start_time |-> IF "start_time" \in a.keys
                                        THEN a.start_time ELSE topic.start_time,
                         end_time |-> IF "end_time" \in a.keys
                                      THEN a.end_time ELSE topic.end_time,
                         chunks |-> IF "chunks" \in a.keys
                                    THEN a.chunks ELSE topic.chunks]
                IN  [chapters |-> [chapters EXCEPT ![h_idx].topics[t_idx] = patched],
                     topic_map |-> topic_map]
            ELSE st
        ELSE st

RECURSIVE ApplyActions(_, _)
\* the loop "for action in actions"
ApplyActions(st, actions) ==
    IF actions = <<>> THEN st
    ELSE ApplyActions(ApplyAction(st, Head(actions)), Tail(actions))

\* variant: every merge starts from the empty structure
PreviousChapters_fresh(results, chunk_id) == <<>>

\* the structure a merge starts from
PreviousChapters(results, chunk_id) ==
    IF chunk_id > 0 /\ (chunk_id - 1) \in DOMAIN results
    THEN results[chunk_id - 1].chapters
    ELSE <<>>

\* _process_incremental_updates: the result stored for chunk_id
ProcessIncrementalUpdates(results, chunk_id, actions) ==
    LET chapters == PreviousChapters(results, chunk_id)
        st == ApplyActions([chapters |-> chapters, topic_map |-> TopicMapOf(chapters)],
                           actions)
    IN  [chapters |-> st.chapters, chunk_id |-> chunk_id]

\* the latest analysis result: the entry with the greatest chunk id
LatestChapters(results) ==
    IF DOMAIN results = {} THEN <<>>
    ELSE results[Max(DOMAIN results)].chapters

\* --------------------------------------------------- conversation history
UserMsg(c, img) == [role |-> "user", chunk |-> c, image |-> img]

AssistantMsg(c) == [role |-> "assistant", chunk |-> c, image |-> FALSE]

RECURSIVE FilterMessages(_, _, _)
\* the while loop of _cleanup_old_messages from index i (1-based)
FilterMessages(msgs, i, chunks_to_keep) ==
    IF i > Len(msgs) THEN <<>>
    ELSE LET message == msgs[i]
             next_is_assistant == i + 1 <= Len(msgs) /\ msgs[i + 1].role = "assistant"
         IN  IF message.role = "user" THEN
                 LET keep_this_pair ==
                         \E c \in chunks_to_keep : IdentifierInText(c, message.chunk)
                 IN  IF keep_this_pair THEN
                         IF next_is_assistant
                         THEN <<message, msgs[i + 1]>> \o
                              FilterMessages(msgs, i + 2, chunks_to_keep)
                         ELSE <<message>> \o FilterMessages(msgs, i + 1, chunks_to_keep)
                     ELSE IF next_is_assistant
                          THEN FilterMessages(msgs, i + 2, chunks_to_keep)
                          ELSE FilterMessages(msgs, i + 1, chunks_to_keep)
             ELSE FilterMessages(msgs, i + 1, chunks_to_keep)

\* all_chapters[-(keep_n + 1):]
ChaptersToKeep(all_chapters, keep_n) ==
    SubSeq(all_chapters, Len(all_chapters) - keep_n, Len(all_chapters))

\* variant: the window is the last keep_n chapters, one fewer
CleanupOldMessages_short(msgs, all_chapters, keep_n) ==
    IF keep_n = None THEN msgs
    ELSE IF Len(all_chapters) <= keep_n + 1 THEN msgs
    ELSE FilterMessages(msgs, 1,
                        ChunksOf(SubSeq(all_chapters, Len(all_chapters) - keep_n + 1,
                                        Len(all_chapters))))

\* _cleanup_old_messages: the history it leaves
CleanupOldMessages(msgs, all_chapters, keep_n) ==
    IF keep_n = None THEN msgs
    ELSE IF Len(all_chapters) <= keep_n + 1 THEN msgs
    ELSE FilterMessages(msgs, 1, ChunksOf(ChaptersToKeep(all_chapters, keep_n)))

\* does update_finalized_chapters reach _cleanup_old_messages
CleanupRuns(results) == Len(LatestChapters(results)) > 1

\* variant: the last chapter is finalized with the others
UpdateFinalizedChapters_all(results, finalized, msgs, keep_n) ==
    LET all_chapters == LatestChapters(results)
    IN  IF DOMAIN results = {} \/ Len(all_chapters) <= 1 THEN
            [finalized |-> finalized, messages |-> msgs, clips |-> FALSE]
        ELSE
            [finalized |-> IF Len(all_chapters) > Len(finalized)
                           THEN all_chapters ELSE finalized,
             messages |-> CleanupOldMessages(msgs, all_chapters, keep_n),
             clips |-> Len(all_chapters) > Len(finalized)]

\* update_finalized_chapters: new finalized list, history, and whether
\* _create_chapter_clips was called
UpdateFinalizedChapters(results, finalized, msgs, keep_n) ==
    LET all_chapters == LatestChapters(results)
    IN  IF DOMAIN results = {} \/ Len(all_chapters) <= 1 THEN
            [finalized |-> finalized, messages |-> msgs, clips |-> FALSE]
        ELSE
            LET candidates == SubSeq(all_chapters, 1, Len(all_chapters) - 1)
                newly_finalized_count == Len(candidates) - Len(finalized)
            IN  [finalized |-> IF newly_finalized_count > 0 THEN candidates ELSE finalized,
                 messages |-> CleanupOldMessages(msgs, all_chapters, keep_n),
                 clips |-> newly_finalized_count > 0]

\* finalize_all_chapters: new finalized list and whether clips were started
FinalizeAllChapters(results, finalized) ==
    LET chapters == LatestChapters(results)
    IN  IF DOMAIN results = {} \/ chapters = <<>>
        THEN [finalized |-> finalized, clips |-> FALSE]
        ELSE [finalized |-> chapters, clips |-> TRUE]

\* ------------------------------------------------- answers of the model
\* the kinds of answer the model gives to the request for one chunk
ParsedKinds == {"chapter", "extend", "two_chapters", "unknown_update",
                "chapter_span"}

\* a topic id the model never issued (issued ids count from 1)
UnknownTopic == 0

\* can the model give this kind of answer for chunk c, having issued H
\* chapter ids and T topic ids
KindPossible(kind, c, H, T) ==
    CASE kind = "chapter" -> TRUE
      [] kind = "extend" -> T >= 1
      [] kind = "two_chapters" -> TRUE
      [] kind = "unknown_update" -> H >= 1
      [] kind = "chapter_span" -> c >= 1
      [] OTHER -> FALSE

\* the actions list of the answer
ActionsOf(kind, c, H, T) ==
    LET s == c * chunk_duration
        e == s + chunk_duration
        mid == s + (chunk_duration \div 2)
    IN  CASE kind = "chapter" ->
                <<NewChapterAct(H + 1), NewTopicAct(T + 1, H + 1, s, e, <<c>>)>>
          [] kind = "extend" ->
                <<UpdateTopicAct(T, {"end_time"}, 0, e, <<>>)>>
          [] kind = "two_chapters" ->
                <<NewChapterAct(H + 1), NewTopicAct(T + 1, H + 1, s, mid, <<c>>),
                  NewChapterAct(H + 2), NewTopicAct(T + 2, H + 2, mid, e, <<c>>)>>
          [] kind = "unknown_update" ->
                <<UpdateTopicAct(UnknownTopic, {"end_time"}, 0, e, <<>>),
                  NewTopicAct(T + 1, H, s, e, <<c>>)>>
          [] kind = "chapter_span" ->
                <<NewChapterAct(H + 1),
                  NewTopicAct(T + 1, H + 1, s - chunk_duration, e, <<c - 1, c>>)>>
          [] OTHER -> <<>>

CountType(actions, ty) == Cardinality({i \in 1 .. Len(actions) : actions[i].type = ty})

\* ------------------------------------------------------------ the state
\* progress through the end-to-end scenario: after n answers the run is the
\* scenario so far iff the value is n; -1 once the run has left the scenario
ScenarioKinds == <<"chapter", "extend", "chapter">>

ScenarioStep(n, c, kind) ==
    IF n >= 0 /\ n < Len(ScenarioKinds) /\ c = n /\ kind = ScenarioKinds[n + 1]
    THEN n + 1 ELSE -1

NoRequest == -1

RECURSIVE SortedSeq(_)
\* sorted(chunk_files) restricted to a set of chunk ids
SortedSeq(S) ==
    IF S = {} THEN <<>>
    ELSE LET m == CHOOSE x \in S : \A y \in S : x <= y
         IN  <<m>> \o SortedSeq(S \ {m})

\* the request queue_analysis builds for a chunk handed off by the monitor
RequestOf(chunk_id) ==
    [chunk_id |-> chunk_id,
     start_time |-> chunk_id * chunk_duration,
     end_time |-> chunk_id * chunk_duration + chunk_duration]

\* the pipeline after the constructors have run
InitPipeline ==
    /\ chunk_files = 0
    /\ processed_chunks = {}
    /\ analysis_queue = <<>>
    /\ is_running = FALSE
    /\ shutdown_timeout = FALSE
    /\ worker_thread = 0
    /\ w_pc = [w \in Workers |-> "new"]
    /\ w_req = [w \in Workers |-> NoRequest]
    /\ messages = <<>>
    /\ analysis_results = <<>>
    /\ finalized_chapters = <<>>
    /\ keep_n_chapters \in KeepChoices
    /\ clips_started = {}
    /\ stop_pc = "idle"
    /\ stops = 0
    /\ nH = 0
    /\ nT = 0
    /\ hist = [scenario |-> 0, unparsable |-> {}, started |-> {},
               out_of_order |-> FALSE, after_stop |-> {},
               analysed_after_stop |-> FALSE,
               merged_after_stop |-> FALSE, stop_trace |-> <<>>,
               last_merged |-> -1, chain |-> {}, last_base |-> <<>>,
               last_actions |-> <<>>, merged_after_finalize |-> FALSE,
               finalize_runs |-> 0, failed |-> FALSE]

\* no function call is followed
NoCall == <<>>

Init == InitPipeline /\ call = NoCall

\* the pipeline stands still while one function call is followed
PipelineIdle ==
    UNCHANGED <<chunk_files, processed_chunks, analysis_queue, is_running,
                shutdown_timeout, worker_thread, w_pc, w_req, messages,
                analysis_results, finalized_chapters, keep_n_chapters,
                clips_started, stop_pc, stops, nH, nT, hist>>

\* ----------------------------------------------------------- ChunkMonitor
\* the transcoder finishes the next chunk file
NewChunkFile ==
    /\ chunk_files < NumChunks
    /\ chunk_files' = chunk_files + 1
    /\ UNCHANGED <<call, processed_chunks, analysis_queue, is_running, shutdown_timeout,
                   worker_thread, w_pc, w_req, messages, analysis_results,
                   finalized_chapters, keep_n_chapters, clips_started, stop_pc,
                   stops, nH, nT, hist>>

\* chunk files the monitoring loop has not processed yet
Unprocessed == (0 .. (chunk_files - 1)) \ processed_chunks

\* queue_analysis for the chunks of handed, in that order
QueueAnalysis(queue, handed) ==
    queue \o [i \in 1 .. Len(handed) |-> RequestOf(handed[i])]

\* one pass of _monitor_loop over sorted(chunk_files): the chunks in ready
\* pass _verify_chunk_ready at this poll and are handed off in sorted order
MonitorPollOf(ready) ==
    /\ ready # {}
    /\ ready \subseteq Unprocessed
    /\ analysis_queue' = QueueAnalysis(analysis_queue, SortedSeq(ready))
    /\ processed_chunks' = processed_chunks \cup ready
    /\ hist' = [hist EXCEPT !.after_stop = IF stops > 0 THEN @ \cup ready ELSE @]
    /\ UNCHANGED <<call, chunk_files, is_running, shutdown_timeout, worker_thread,
                   w_pc, w_req, messages, analysis_results, finalized_chapters,
                   keep_n_chapters, clips_started, stop_pc, stops, nH, nT>>

\* a poll at which every probe succeeds
MonitorPollAllReady == MonitorPollOf(Unprocessed)

\* a poll at which any of the probes may fail (file still growing, ffprobe
\* error or timeout)
MonitorPoll == \E ready \in SUBSET Unprocessed : MonitorPollOf(ready)

\* --------------------------------------------------------- FusionAnalyzer
\* start_analysis: sets the flag and starts a new worker thread
StartAnalysis ==
    /\ worker_thread < MaxStarts
    /\ is_running' = TRUE
    /\ worker_thread' = worker_thread + 1
    /\ w_pc' = [w_pc EXCEPT ![worker_thread + 1] = "run"]
    /\ UNCHANGED <<call, chunk_files, processed_chunks, analysis_queue, shutdown_timeout,
                   w_req, messages, analysis_results, finalized_chapters,
                   keep_n_chapters, clips_started, stop_pc, stops, nH, nT, hist>>

\* the caller starts the analyzer once
StartAnalysisOnce == worker_thread = 0 /\ StartAnalysis

\* variant: the drain loop ignores the shutdown timeout flag
CanDequeue_noflag(w) ==
    \/ w_pc[w] = "run" /\ is_running
    \/ w_pc[w] = "drain"

\* may worker w take a request from the queue: it is in "while self.is_running"
\* with the flag set, or in the drain loop with no shutdown timeout flagged
CanDequeue(w) ==
    \/ w_pc[w] = "run" /\ is_running
    \/ w_pc[w] = "drain" /\ ~shutdown_timeout

\* analysis_queue.get() returns a request and _perform_fusion_analysis runs
\* up to the model call: the user message with the image is appended
WorkerDequeue(w) ==
    /\ CanDequeue(w)
    /\ analysis_queue # <<>>
    /\ analysis_queue' = Tail(analysis_queue)
    /\ w_req' = [w_req EXCEPT ![w] = Head(analysis_queue).chunk_id]
    /\ w_pc' = [w_pc EXCEPT ![w] = IF w_pc[w] = "run" THEN "run_call" ELSE "drain_call"]
    /\ messages' = Append(messages, UserMsg(Head(analysis_queue).chunk_id, TRUE))
    /\ hist' = [hist EXCEPT
                  !.started = @ \cup {Head(analysis_queue).chunk_id},
                  !.out_of_order = @ \/ \E j \in hist.started : j > Head(analysis_queue).chunk_id,
                  !.analysed_after_stop =
                      @ \/ Head(analysis_queue).chunk_id \in hist.after_stop]
    /\ UNCHANGED <<call, chunk_files, processed_chunks, is_running, shutdown_timeout,
                   worker_thread, analysis_results, finalized_chapters,
                   keep_n_chapters, clips_started, stop_pc, stops, nH, nT>>

\* is worker w inside the model call of _perform_fusion_analysis
InCall(w) == w_pc[w] \in {"run_call", "drain_call"}

\* the position a worker returns to after _perform_fusion_analysis
AfterCall(pc) == IF pc = "run_call" THEN "run" ELSE "drain"

\* invoke_model raises: the outer handler logs, the history keeps the user
\* message just appended
WorkerModelError(w) ==
    /\ InCall(w)
    /\ w_pc' = [w_pc EXCEPT ![w] = AfterCall(w_pc[w])]
    /\ w_req' = [w_req EXCEPT ![w] = NoRequest]
    /\ hist' = [hist EXCEPT !.scenario = -1, !.last_merged = -1, !.failed = TRUE,
                             !.after_stop = @ \ {w_req[w]}]
    /\ UNCHANGED <<call, chunk_files, processed_chunks, analysis_queue, is_running,
                   shutdown_timeout, worker_thread, messages, analysis_results,
                   finalized_chapters, keep_n_chapters, clips_started, stop_pc,
                   stops, nH, nT>>

\* the history after the answer arrived: the last message is replaced by the
\* user message without image, the assistant message is appended
WithAnswer(msgs, c) ==
    Append([msgs EXCEPT ![Len(msgs)] = UserMsg(c, FALSE)], AssistantMsg(c))

\* the model answers with text that holds no parsable JSON block
WorkerUnparsable(w) ==
    /\ InCall(w)
    /\ messages # <<>>
    /\ w_pc' = [w_pc EXCEPT ![w] = AfterCall(w_pc[w])]
    /\ w_req' = [w_req EXCEPT ![w] = NoRequest]
    /\ messages' = WithAnswer(messages, w_req[w])
    /\ hist' = [hist EXCEPT !.scenario = -1, !.last_merged = -1, !.failed = TRUE,
                             !.unparsable = @ \cup {w_req[w]},
                             !.after_stop = @ \ {w_req[w]}]
    /\ UNCHANGED <<call, chunk_files, processed_chunks, analysis_queue, is_running,
                   shutdown_timeout, worker_thread, analysis_results,
                   finalized_chapters, keep_n_chapters, clips_started, stop_pc,
                   stops, nH, nT>>

\* the model answers with a parsable actions list of the given kind: merge,
\* store the result, update the finalized chapters, prune the history
WorkerMergeOf(w, kind) ==
    LET c == w_req[w]
        actions == ActionsOf(kind, c, nH, nT)
        result == ProcessIncrementalUpdates(analysis_results, c, actions)
        results2 == (c :> result) @@ analysis_results
        uf == UpdateFinalizedChapters(results2, finalized_chapters,
                                      WithAnswer(messages, c), keep_n_chapters)
    IN  /\ InCall(w)
        /\ messages # <<>>
        /\ KindPossible(kind, c, nH, nT)
        /\ w_pc' = [w_pc EXCEPT ![w] = AfterCall(w_pc[w])]
        /\ w_req' = [w_req EXCEPT ![w] = NoRequest]
        /\ analysis_results' = results2
        /\ finalized_chapters' = uf.finalized
        /\ messages' = uf.messages
        /\ clips_started' = IF uf.clips
                            THEN clips_started \cup ChapterIdsOf(uf.finalized)
                            ELSE clips_started
        /\ nH' = nH + CountType(actions, "new_chapter")
        /\ nT' = nT + CountType(actions, "new_topic")
        /\ hist' = [hist EXCEPT
                      !.scenario = ScenarioStep(@, c, kind),
                      !.last_merged = c,
                      !.chain = IF hist.last_merged >= 0 /\ c = hist.last_merged + 1
                                THEN @ \cup IdsOf(result.chapters)
                                ELSE IdsOf(result.chapters),
                      !.last_base = PreviousChapters(analysis_results, c),
                      !.last_actions = actions,
                      !.merged_after_finalize = (hist.finalize_runs > 0),
                      !.merged_after_stop = @ \/ c \in hist.after_stop,
                      !.after_stop = @ \ {c}]
        /\ UNCHANGED <<call, chunk_files, processed_chunks, analysis_queue, is_running,
                       shutdown_timeout, worker_thread, keep_n_chapters, stop_pc,
                       stops>>

\* any answer that parses
WorkerMerge(w) == \E kind \in ParsedKinds : WorkerMergeOf(w, kind)

\* an answer that opens a chapter or extends the current topic
WorkerMergeBasic(w) == \E kind \in {"chapter", "extend"} : WorkerMergeOf(w, kind)

\* "while self.is_running" ends: the worker enters the drain loop
WorkerEnterDrain(w) ==
    /\ w_pc[w] = "run"
    /\ ~is_running
    /\ w_pc' = [w_pc EXCEPT ![w] = "drain"]
    /\ UNCHANGED <<call, chunk_files, processed_chunks, analysis_queue, is_running,
                   shutdown_timeout, worker_thread, w_req, messages,
                   analysis_results, finalized_chapters, keep_n_chapters,
                   clips_started, stop_pc, stops, nH, nT, hist>>

\* the drain loop ends: queue found empty, shutdown timeout flagged, or the
\* 60 s drain timeout has passed
WorkerExit(w) ==
    /\ w_pc[w] = "drain"
    /\ w_pc' = [w_pc EXCEPT ![w] = "exit"]
    /\ UNCHANGED <<call, chunk_files, processed_chunks, analysis_queue, is_running,
                   shutdown_timeout, worker_thread, w_req, messages,
                   analysis_results, finalized_chapters, keep_n_chapters,
                   clips_started, stop_pc, stops, nH, nT, hist>>

\* hasattr(self, 'worker_thread') and self.worker_thread.is_alive()
WorkerThreadAlive == worker_thread # 0 /\ w_pc[worker_thread] # "exit"

\* the condition stop_analysis waits on
StillPending == analysis_queue # <<>> \/ WorkerThreadAlive

\* stop_analysis is called: the flag is cleared and the wait begins
StopCall ==
    /\ stop_pc \in {"idle", "stopped"}
    /\ stops < MaxStops
    /\ is_running' = FALSE
    /\ stop_pc' = "draining"
    /\ stops' = stops + 1
    /\ hist' = [hist EXCEPT !.stop_trace = <<"draining">>]
    /\ UNCHANGED <<call, chunk_files, processed_chunks, analysis_queue, shutdown_timeout,
                   worker_thread, w_pc, w_req, messages, analysis_results,
                   finalized_chapters, keep_n_chapters, clips_started, nH, nT>>

\* the caller shuts the pipeline down once
StopCallOnce == stops = 0 /\ StopCall

\* the wait of stop_analysis ends, by completion or after 300 s; on a
\* timeout the worker is told to stop draining
StopWaitEnds ==
    /\ stop_pc = "draining"
    /\ shutdown_timeout' = (shutdown_timeout \/ StillPending)
    /\ stop_pc' = "finalizing"
    /\ hist' = [hist EXCEPT !.stop_trace =
                   Append(@, IF StillPending THEN "timeout" ELSE "drained")]
    /\ UNCHANGED <<call, chunk_files, processed_chunks, analysis_queue, is_running,
                   worker_thread, w_pc, w_req, messages, analysis_results,
                   finalized_chapters, keep_n_chapters, clips_started, stops,
                   nH, nT>>

\* stop_analysis calls finalize_all_chapters
StopFinalize ==
    LET fa == FinalizeAllChapters(analysis_results, finalized_chapters)
    IN  /\ stop_pc = "finalizing"
        /\ finalized_chapters' = fa.finalized
        /\ clips_started' = IF fa.clips
                            THEN clips_started \cup ChapterIdsOf(fa.finalized)
                            ELSE clips_started
        /\ stop_pc' = "clip_wait"
        /\ hist' = [hist EXCEPT !.stop_trace = Append(@, "finalized"),
                                 !.merged_after_finalize = FALSE,
                                 !.finalize_runs = 1]
        /\ UNCHANGED <<call, chunk_files, processed_chunks, analysis_queue, is_running,
                       shutdown_timeout, worker_thread, w_pc, w_req, messages,
                       analysis_results, keep_n_chapters, stops, nH, nT>>

\* the waits for the clip threads end and print_token_metrics runs;
\* stop_analysis returns
StopReturn ==
    /\ stop_pc = "clip_wait"
    /\ stop_pc' = "stopped"
    /\ hist' = [hist EXCEPT !.stop_trace = Append(@, "metrics")]
    /\ UNCHANGED <<call, chunk_files, processed_chunks, analysis_queue, is_running,
                   shutdown_timeout, worker_thread, w_pc, w_req, messages,
                   analysis_results, finalized_chapters, keep_n_chapters,
                   clips_started, stops, nH, nT>>

\* ------------------------------------------------------- specifications
\* the pipeline as the notebook runs it: the analyzer is started once, the
\* monitor hands the chunks off in order, the model answers in any way,
\* stop_analysis is called at any moment
Next ==
    \/ NewChunkFile
    \/ MonitorPollAllReady
    \/ StartAnalysisOnce
    \/ \E w \in Workers : WorkerDequeue(w)
    \/ \E w \in Workers : WorkerModelError(w)
    \/ \E w \in Workers : WorkerUnparsable(w)
    \/ \E w \in Workers : WorkerMerge(w)
    \/ \E w \in Workers : WorkerEnterDrain(w)
    \/ \E w \in Workers : WorkerExit(w)
    \/ StopCallOnce
    \/ StopWaitEnds
    \/ StopFinalize
    \/ StopReturn

Spec == Init /\ [][Next]_vars

\* ------------------------------------------------------------------ C1
\* the structure the scenario ends with: chapter h1 holding exactly topic t1
\* over [0,40], chapter h2 holding topic t2 over [40,60]
ScenarioChapters ==
    <<[id |-> 1, topics |-> <<[id |-> 1, start_time |-> 0, end_time |-> 40,
                               chunks |-> <<0>>]>>],
      [id |-> 2, topics |-> <<[id |-> 2, start_time |-> 40, end_time |-> 60,
                               chunks |-> <<2>>]>>]>>

\* C1: when chunks 0, 1, 2 are analysed in that order and the model answers
\* (1) new_chapter h1 + new_topic t1 [0,20], (2) update_topic t1 end_time=40,
\* (3) new_chapter h2 + new_topic t2 [40,60], nothing is finalized before the
\* third answer is merged; after it the structure has exactly the chapters h1
\* (with exactly t1 over [0,40]) and h2, chapter h1 alone is finalized and
\* its clip extraction started; h2 is finalized only by finalize_all_chapters
\* of stop_analysis.
C1_EndToEndScenario ==
    /\ (hist.scenario \in 0 .. 2 /\ hist.finalize_runs = 0) =>
           (finalized_chapters = <<>> /\ clips_started = {})
    /\ hist.scenario = 3 =>
           /\ LatestChapters(analysis_results) = ScenarioChapters
           /\ hist.finalize_runs = 0 =>
                  /\ ChapterIdSeq(finalized_chapters) = <<1>>
                  /\ clips_started = {1}
           /\ (hist.finalize_runs > 0 /\ ~hist.merged_after_finalize) =>
                  /\ finalized_chapters = ScenarioChapters
                  /\ clips_started = {1, 2}

\* the scenario has run, stop_analysis has returned, both chapters finalized
C1_Witness ==
    /\ hist.scenario = 3
    /\ stop_pc = "stopped"
    /\ ChapterIdSeq(finalized_chapters) = <<1, 2>>

\* ------------------------------------------------------------------ C2
RECURSIVE KnownOnly(_, _)
\* the actions without the update_topic actions whose id names no topic of
\* the structure at the moment the action is reached
KnownOnly(known, actions) ==
    IF actions = <<>> THEN <<>>
    ELSE LET a == Head(actions)
         IN  IF a.type = "update_topic" /\ a.id \notin known
             THEN KnownOnly(known, Tail(actions))
             ELSE <<a>> \o KnownOnly(IF a.type = "new_topic" THEN known \cup {a.id}
                                     ELSE known, Tail(actions))

C3_ParseFailureKeepsStructure ==
    \A k \in hist.unparsable :
        /\ k \notin DOMAIN analysis_results
        /\ \A a, b \in DOMAIN analysis_results :
               (a < k /\ k < b) =>
                   IdsOf(analysis_results[a].chapters)
                       \subseteq IdsOf(analysis_results[b].chapters)

\* ------------------------------------------------------------------ C6
\* C6: after every successful merge (and before finalize_all_chapters has
\* run), with n the number of chapters of the latest result: if n > 1 the
\* finalized chapters are exactly the first n-1 chapters, if n <= 1 nothing
\* is finalized; and clip extraction was started for every finalized chapter.
C6_FinalizedIsAllButLast ==
    (hist.last_merged >= 0 /\ hist.finalize_runs = 0) =>
        LET all_chapters == LatestChapters(analysis_results)
            n == Len(all_chapters)
        IN  /\ n > 1 => ChapterIdSeq(finalized_chapters)
                            = ChapterIdSeq(SubSeq(all_chapters, 1, n - 1))
            /\ n <= 1 => finalized_chapters = <<>>
            /\ ChapterIdsOf(finalized_chapters) \subseteq clips_started

\* ------------------------------------------------------------------ C4
\* the monitor with its readiness probe, one worker, no stop
NextMonitor ==
    \/ NewChunkFile
    \/ MonitorPoll
    \/ StartAnalysisOnce
    \/ \E w \in Workers : WorkerDequeue(w)
    \/ \E w \in Workers : WorkerMergeBasic(w)

SpecMonitor == Init /\ [][NextMonitor]_vars

\* C4: requests are analysed strictly in chunk id order: no request is taken
\* for analysis after the request of a later chunk was taken, also in runs
\* where a chunk is not ready at a poll at which a later chunk is ready.
C4_MergesInChunkOrder == ~hist.out_of_order

\* ------------------------------------------------------------------ C5
\* start_analysis and stop_analysis called in any order, up to MaxStarts
\* starts
NextRestart ==
    \/ NewChunkFile
    \/ MonitorPollAllReady
    \/ StartAnalysis
    \/ \E w \in Workers : WorkerDequeue(w)
    \/ \E w \in Workers : WorkerMergeBasic(w)
    \/ \E w \in Workers : WorkerEnterDrain(w)
    \/ \E w \in Workers : WorkerExit(w)
    \/ StopCall
    \/ StopWaitEnds
    \/ StopFinalize
    \/ StopReturn

SpecRestart == Init /\ [][NextRestart]_vars

\* C5: at most one model request is in flight at any time, whatever the
\* interleaving of queue_analysis, start_analysis and stop_analysis.
C5_OneRequestInFlight == Cardinality({w \in Workers : InCall(w)}) <= 1

\* ------------------------------------------------------------------ C7
\* C7: when stop_analysis returns, every chapter of the latest result is in
\* the finalized set.
C7_StopFinalizesEveryChapter ==
    [][(stop_pc = "clip_wait" /\ stop_pc' = "stopped") =>
           ChapterIdsOf(LatestChapters(analysis_results'))
               \subseteq ChapterIdsOf(finalized_chapters')]_vars

PairsOK(msgs) ==
    /\ Len(msgs) % 2 = 0
    /\ \A i \in 1 .. Len(msgs) :
           IF i % 2 = 1
           THEN msgs[i].role = "user" /\ msgs[i + 1].role = "assistant"
                /\ msgs[i + 1].chunk = msgs[i].chunk
           ELSE msgs[i].role = "assistant"

RECURSIVE IsSubseq(_, _)
\* s is t with some elements left out
IsSubseq(s, t) ==
    IF s = <<>> THEN TRUE
    ELSE IF t = <<>> THEN FALSE
    ELSE IF Head(s) = Head(t) THEN IsSubseq(Tail(s), Tail(t))
    ELSE IsSubseq(s, Tail(t))

\* worker w stores the result of its request in this step
MergeStep(w) ==
    /\ InCall(w)
    /\ ~InCall(w)'
    /\ analysis_results' # analysis_results

C10_CleanupKeepsPairs ==
    [][\A w \in Workers :
           (MergeStep(w) /\ CleanupRuns(analysis_results')) =>
               LET before == WithAnswer(messages, w_req[w])
                   all_chapters == LatestChapters(analysis_results')
               IN  /\ PairsOK(messages')
                   /\ IsSubseq(messages', before)
                   /\ (keep_n_chapters = None
                       \/ Len(all_chapters) <= keep_n_chapters + 1) =>
                          messages' = before]_vars

\* ------------------------------------------------------------------ C11
\* most topics one answer adds to a chapter
MaxTopics == 3

\* topic boundaries, in seconds
TopicTimes == {0, 10, 20, 30}

RECURSIVE InsertByStart(_, _)
\* t put into a list sorted by start_time, after the topics that start at
\* the same time (sorted() is stable)
InsertByStart(sorted, t) ==
    IF sorted = <<>> THEN <<t>>
    ELSE IF t.start_time < Head(sorted).start_time THEN <<t>> \o sorted
    ELSE <<Head(sorted)>> \o InsertByStart(Tail(sorted), t)

RECURSIVE SortedByStart(_)
\* sorted(topics, key=lambda t: t.get('start_time', 0))
SortedByStart(topics) ==
    IF topics = <<>> THEN <<>>
    ELSE InsertByStart(SortedByStart(SubSeq(topics, 1, Len(topics) - 1)),
                       topics[Len(topics)])

\* variant: the topics are compared in stored order, without the sort
DetectOverlappingTopics_unsorted(chapters) ==
    {p \in (1 .. Len(chapters)) \X (1 .. MaxTopics) :
        LET topics == chapters[p[1]].topics
        IN  /\ Len(topics) > 1
            /\ p[2] < Len(topics)
            /\ topics[p[2]].end_time > topics[p[2] + 1].start_time}

\* _detect_overlapping_topics: the pairs <<chapter, i>> for which a warning
\* is logged, i the position of the earlier topic in start_time order
DetectOverlappingTopics(chapters) ==
    {p \in (1 .. Len(chapters)) \X (1 .. MaxTopics) :
        LET topics_sorted == SortedByStart(chapters[p[1]].topics)
        IN  /\ Len(topics_sorted) > 1
            /\ p[2] < Len(topics_sorted)
            /\ topics_sorted[p[2]].end_time > topics_sorted[p[2] + 1].start_time}

\* the time ranges a topic can be given
TopicRanges == {r \in TopicTimes \X TopicTimes : r[1] < r[2]}

\* answers that open chapter h1 and add n topics to it
NewTopicAnswers(n) ==
    {<<NewChapterAct(1)>> \o [i \in 1 .. n |-> NewTopicAct(i, 1, rs[i][1], rs[i][2], <<0>>)] :
        rs \in [1 .. n -> TopicRanges]}

\* the answers followed through merge and validation: up to MaxTopics new
\* topics, then possibly an update_topic of the first topic's end_time
TopicAnswers ==
    LET new == UNION {NewTopicAnswers(n) : n \in 1 .. MaxTopics}
    IN  new \cup {Append(a, UpdateTopicAct(1, {"end_time"}, 0, e, <<>>)) :
                     a \in new, e \in TopicTimes \ {0}}

InitOverlap ==
    /\ InitPipeline
    /\ call \in {[op |-> "merge", actions |-> a, done |-> FALSE,
                  chapters |-> <<>>, warnings |-> {}] : a \in TopicAnswers}

\* the answer is merged into the empty structure and the result validated
MergeAndDetect ==
    /\ ~call.done
    /\ LET chapters == ProcessIncrementalUpdates(<<>>, 0, call.actions).chapters
       IN  call' = [call EXCEPT !.done = TRUE, !.chapters = chapters,
                                !.warnings = DetectOverlappingTopics(chapters)]
    /\ PipelineIdle

NextOverlap == MergeAndDetect

SpecOverlap == InitOverlap /\ [][NextOverlap]_vars

\* the pairs <<chapter, i>> of the merged structure with i and i+1 adjacent
\* in start_time order
AdjacentPairs ==
    {p \in (1 .. Len(call.chapters)) \X (1 .. MaxTopics) :
        p[2] < Len(call.chapters[p[1]].topics)}

\* end of the earlier and start of the later topic of an adjacent pair
PairEnd(p) == SortedByStart(call.chapters[p[1]].topics)[p[2]].end_time
PairStart(p) == SortedByStart(call.chapters[p[1]].topics)[p[2] + 1].start_time

MaxTokens == 4

\* an answer text is a sequence of tokens: "open_json" is ```json, "fence"
\* is ```, "obj" is the text of a JSON object with an actions list, "txt" is
\* any other text
Tokens == {"open_json", "fence", "obj", "txt"}

Responses == UNION {[1 .. n -> Tokens] : n \in 1 .. MaxTokens}

\* first position from `from` on that holds a token of S, 0 if there is none
FirstIndex(resp, S, from) ==
    LET hits == {i \in from .. Len(resp) : resp[i] \in S}
    IN  IF hits = {} THEN 0 ELSE CHOOSE i \in hits : \A k \in hits : i <= k

\* re.search(r'```json\s*(.*?)\s*```', content, re.DOTALL): the text between
\* the first ```json and the next ``` (which a further ```json also begins)
ExtractJson(resp) ==
    LET i == FirstIndex(resp, {"open_json"}, 1)
        j == IF i = 0 THEN 0 ELSE FirstIndex(resp, {"fence", "open_json"}, i + 1)
    IN  IF i = 0 \/ j = 0 THEN [found |-> FALSE, content |-> <<>>]
        ELSE [found |-> TRUE, content |-> SubSeq(resp, i + 1, j - 1)]

\* json.loads accepts the text of exactly one JSON value
JsonLoads(content) == content = <<"obj">>

\* variant: a text without fenced block is handed to json.loads as it is
ParseOutcome_bare(resp) ==
    LET m == ExtractJson(resp)
    IN  IF JsonLoads(IF m.found THEN m.content ELSE resp)
        THEN "merged" ELSE "parse_failure"

\* the try block of _perform_fusion_analysis: is the answer merged or is it
\* a parse failure
ParseOutcome(resp) ==
    LET m == ExtractJson(resp)
    IN  IF m.found /\ JsonLoads(m.content) THEN "merged" ELSE "parse_failure"

InitParse ==
    /\ InitPipeline
    /\ call \in {[op |-> "parse", response |-> r, done |-> FALSE,
                  outcome |-> "none"] : r \in Responses}

\* the answer text goes through the parse step
ParseAnswer ==
    /\ ~call.done
    /\ call' = [call EXCEPT !.done = TRUE, !.outcome = ParseOutcome(call.response)]
    /\ PipelineIdle

NextParse == ParseAnswer

SpecParse == InitParse /\ [][NextParse]_vars

\* the answer text without its fence tokens
WithoutFences(resp) == SelectSeq(resp, LAMBDA t : t \notin {"open_json", "fence"})

MaxChapters == 3

\* a clip thread walks the chapters it found finalized: "start" is the search
\* for the recording, "check" the os.path.exists test of the chapter's clip,
\* "spawn" the ffmpeg process not yet having opened the clip file, "encode"
\* ffmpeg writing it, "done" the thread's return
NewClipThread == [pc |-> "start", n |-> 0, i |-> 0]

\* live clip threads of the analyzer (Thread.is_alive)
ClipThreadsAlive == {t \in DOMAIN call.threads : call.threads[t].pc # "done"}

\* clip threads inside the ffmpeg run for the clip of chapter i
ClipWriters(i) ==
    {t \in DOMAIN call.threads :
        call.threads[t].pc \in {"spawn", "encode"} /\ call.threads[t].i = i}

InitClips ==
    /\ InitPipeline
    /\ call \in {[op |-> "clips", recording |-> r, chapters |-> 1,
                  finalized |-> 0, threads |-> <<>>, files |-> {},
                  stopped |-> FALSE, merged_while_clipping |-> FALSE,
                  same_file |-> FALSE] : r \in BOOLEAN}

\* _create_chapter_clips: a new thread is made and started, its handle
\* replaces self.clip_thread (the last element of threads)
CreateChapterClips(c) ==
    [c EXCEPT !.threads = Append(c.threads, NewClipThread)]

\* the worker merges an answer that opens a chapter; update_finalized_chapters
\* finalizes all chapters but the last and starts a clip thread, and the
\* worker returns to its queue
ClipWorkerMerge ==
    /\ ~call.stopped
    /\ call.chapters < MaxChapters
    /\ LET c == [call EXCEPT !.chapters = call.chapters + 1,
                             !.merged_while_clipping =
                                 @ \/ ClipThreadsAlive # {}]
       IN  call' = IF c.chapters - 1 > c.finalized
                   THEN CreateChapterClips([c EXCEPT !.finalized = c.chapters - 1])
                   ELSE c
    /\ PipelineIdle

\* finalize_all_chapters at shutdown: every chapter is finalized and a clip
\* thread is started
ClipFinalizeAll ==
    /\ ~call.stopped
    /\ call' = CreateChapterClips([call EXCEPT !.finalized = call.chapters,
                                               !.stopped = TRUE])
    /\ PipelineIdle

\* the thread has looked for the recording: without one it returns, with one
\* it starts the loop over the finalized chapters it reads now
ClipThreadStart(t) ==
    /\ call.threads[t].pc = "start"
    /\ call' = [call EXCEPT !.threads[t] =
                    IF call.recording /\ call.finalized >= 1
                    THEN [pc |-> "check", n |-> call.finalized, i |-> 1]
                    ELSE [pc |-> "done", n |-> 0, i |-> 0]]
    /\ PipelineIdle

\* the thread's position after the clip of chapter i
AfterClip(th) ==
    IF th.i < th.n THEN [th EXCEPT !.pc = "check", !.i = th.i + 1]
    ELSE [th EXCEPT !.pc = "done"]

\* the thread's position after the test of the chapter's clip file
AfterExistsCheck(c, t) ==
    IF c.threads[t].i \in c.files THEN AfterClip(c.threads[t])
    ELSE [c.threads[t] EXCEPT !.pc = "spawn"]

\* if not os.path.exists(clip_path): run ffmpeg, else go on
ClipExistsCheck(t) ==
    /\ call.threads[t].pc = "check"
    /\ call' = [call EXCEPT !.threads[t] = AfterExistsCheck(call, t)]
    /\ PipelineIdle

\* ffmpeg opens (creates or truncates, -y) the clip file
ClipFfmpegOpen(t) ==
    /\ call.threads[t].pc = "spawn"
    /\ call' = [call EXCEPT !.threads[t].pc = "encode",
                            !.files = @ \cup {call.threads[t].i},
                            !.same_file =
                                @ \/ ClipWriters(call.threads[t].i) # {t}]
    /\ PipelineIdle

\* ffmpeg ends, subprocess.run returns
ClipFfmpegDone(t) ==
    /\ call.threads[t].pc = "encode"
    /\ call' = [call EXCEPT !.threads[t] = AfterClip(call.threads[t])]
    /\ PipelineIdle

ClipThreadStep ==
    \E t \in DOMAIN call.threads :
        \/ ClipThreadStart(t)
        \/ ClipExistsCheck(t)
        \/ ClipFfmpegOpen(t)
        \/ ClipFfmpegDone(t)

NextClips ==
    \/ ClipWorkerMerge
    \/ ClipFinalizeAll
    \/ ClipThreadStep

SpecClips == InitClips /\ [][NextClips]_vars

\* C13 as stated: the worker goes on merging while clips are created, and
\* at most one clip thread of the analyzer is alive at any time, so no two
\* threads run ffmpeg for the same clip file at once.
C13_OneClipThreadAtATime ==
    /\ Cardinality(ClipThreadsAlive) <= 1
    /\ \A i \in 1 .. MaxChapters : Cardinality(ClipWriters(i)) <= 1

\* the part of C13 that the code keeps: the worker merged a further answer
\* while a clip thread was alive
C13_WorkerDidNotWait == call.merged_while_clipping

\* two clip threads inside ffmpeg for the clip file of the same chapter
C13_SameFileTwice == call.same_file

\* ------------------------------------------------------------------ C14
\* most chunks the monitor queues while the shutdown is followed
MaxQueued == 2

\* a wait with a timeout is over when its condition holds or its time is up
WaitOver_untimed(done, timer) == done
WaitOver(done, timer) == done \/ timer = "expired"

\* the steps of _shutdown_processors in which the caller waits
WaitPhases == {"monitor_join", "analysis_wait", "worker_join", "clip_join",
               "threads_join"}

\* the pipeline running: the monitor thread polls, the worker serves the
\* queue; model_stuck says whether a model call, once made, outlasts every
\* timeout of the shutdown
InitShutdown ==
    /\ InitPipeline
    /\ call \in {[op |-> "shutdown", model_stuck |-> s, phase |-> "running",
                  timer |-> "running", monitor_running |-> TRUE,
                  monitor |-> "loop", queued |-> 0, queue |-> 0,
                  analyzer_running |-> TRUE, worker |-> "run",
                  drain_timer |-> "running", shutdown_timeout |-> FALSE,
                  clip |-> "none", timeouts |-> {}] : s \in BOOLEAN}

\* _monitor_loop finds a chunk ready and begins _process_chunk
ShutdownMonitorBegin ==
    /\ call.monitor = "loop"
    /\ call.monitor_running
    /\ call.queued < MaxQueued
    /\ call' = [call EXCEPT !.monitor = "busy"]
    /\ PipelineIdle

\* _process_chunk ends with queue_analysis
ShutdownMonitorQueue ==
    /\ call.monitor = "busy"
    /\ call' = [call EXCEPT !.monitor = "loop", !.queue = @ + 1,
                            !.queued = @ + 1]
    /\ PipelineIdle

\* "while self.is_running" of the monitor loop ends
ShutdownMonitorExit ==
    /\ call.monitor = "loop"
    /\ ~call.monitor_running
    /\ call' = [call EXCEPT !.monitor = "exited"]
    /\ PipelineIdle

\* the worker takes a request and calls the model, in its main loop or in
\* its drain loop
ShutdownWorkerGet ==
    /\ call.queue > 0
    /\ \/ call.worker = "run" /\ call.analyzer_running
       \/ /\ call.worker = "drain"
          /\ call.drain_timer = "running"
          /\ ~call.shutdown_timeout
    /\ call' = [call EXCEPT !.queue = @ - 1,
                            !.worker = IF @ = "run" THEN "call"
                                       ELSE "drain_call"]
    /\ PipelineIdle

\* the model call returns (answer or error)
ShutdownWorkerReturn ==
    /\ call.worker \in {"call", "drain_call"}
    /\ ~call.model_stuck
    /\ call' = [call EXCEPT !.worker = IF @ = "call" THEN "run" ELSE "drain"]
    /\ PipelineIdle

\* the main loop ends, the drain loop and its 60 s begin
ShutdownWorkerToDrain ==
    /\ call.worker = "run"
    /\ ~call.analyzer_running
    /\ call' = [call EXCEPT !.worker = "drain", !.drain_timer = "running"]
    /\ PipelineIdle

\* the 60 s of the drain loop pass
ShutdownDrainTimePasses ==
    /\ call.worker \in {"drain", "drain_call"}
    /\ call.drain_timer = "running"
    /\ call' = [call EXCEPT !.drain_timer = "expired"]
    /\ PipelineIdle

\* the drain loop ends: time up, shutdown timeout flagged, or queue empty
ShutdownWorkerExit ==
    /\ call.worker = "drain"
    /\ \/ call.drain_timer = "expired"
       \/ call.shutdown_timeout
       \/ call.queue = 0
    /\ call' = [call EXCEPT !.worker = "exit"]
    /\ PipelineIdle

ShutdownWorkerStep ==
    \/ ShutdownWorkerGet
    \/ ShutdownWorkerReturn
    \/ ShutdownWorkerToDrain
    \/ ShutdownWorkerExit

\* a clip thread ends
ShutdownClipDone ==
    /\ call.clip = "running"
    /\ call' = [call EXCEPT !.clip = "done"]
    /\ PipelineIdle

\* the timeout of the wait the caller is in passes
ShutdownTimePasses ==
    /\ call.phase \in WaitPhases
    /\ call.timer = "running"
    /\ call' = [call EXCEPT !.timer = "expired"]
    /\ PipelineIdle

\* the caller's next step after a wait, with the note of a timed-out wait
AfterWait(c, done, next) ==
    [c EXCEPT !.phase = next, !.timer = "running",
              !.timeouts = IF done THEN @ ELSE @ \cup {c.phase}]

\* _shutdown_processors calls stop_monitoring: flag cleared, then
\* monitor_thread.join(timeout=5)
ShutdownStopMonitoring ==
    /\ call.phase = "running"
    /\ call' = [call EXCEPT !.phase = "monitor_join", !.timer = "running",
                            !.monitor_running = FALSE]
    /\ PipelineIdle

\* the join of the monitor thread is over; stop_monitoring returns, and so
\* does stop_processing, whose processing_thread was never created;
\* stop_analysis clears is_running and waits up to 300 s for queue and worker
ShutdownMonitorJoinEnds ==
    LET done == call.monitor = "exited"
    IN  /\ call.phase = "monitor_join"
        /\ WaitOver(done, call.timer)
        /\ call' = [AfterWait(call, done, "analysis_wait")
                       EXCEPT !.analyzer_running = FALSE]
        /\ PipelineIdle

\* the 300 s wait of stop_analysis is over; a timeout is flagged to the worker
ShutdownAnalysisWaitEnds ==
    LET done == call.queue = 0 /\ call.worker = "exit"
    IN  /\ call.phase = "analysis_wait"
        /\ WaitOver(done, call.timer)
        /\ call' = [AfterWait(call, done, "worker_join")
                       EXCEPT !.shutdown_timeout = @ \/ ~done]
        /\ PipelineIdle

\* worker_thread.join(timeout=5) is over; finalize_all_chapters starts a clip
\* thread and wait_for_clip_creation joins it for up to 120 s
ShutdownWorkerJoinEnds ==
    LET done == call.worker = "exit"
    IN  /\ call.phase = "worker_join"
        /\ WaitOver(done, call.timer)
        /\ call' = [AfterWait(call, done, "clip_join") EXCEPT !.clip = "running"]
        /\ PipelineIdle

\* the join of the clip thread is over; every live non-daemon thread is
\* joined for up to 30 s
ShutdownClipJoinEnds ==
    LET done == call.clip = "done"
    IN  /\ call.phase = "clip_join"
        /\ WaitOver(done, call.timer)
        /\ call' = AfterWait(call, done, "threads_join")
        /\ PipelineIdle

\* the joins of the non-daemon threads are over; stop_analysis returns
ShutdownThreadsJoinEnds ==
    LET done == call.clip = "done"
    IN  /\ call.phase = "threads_join"
        /\ WaitOver(done, call.timer)
        /\ call' = AfterWait(call, done, "returned")
        /\ PipelineIdle

ShutdownCallerStep ==
    \/ ShutdownMonitorJoinEnds
    \/ ShutdownAnalysisWaitEnds
    \/ ShutdownWorkerJoinEnds
    \/ ShutdownClipJoinEnds
    \/ ShutdownThreadsJoinEnds

NextShutdown ==
    \/ ShutdownMonitorBegin
    \/ ShutdownMonitorQueue
    \/ ShutdownMonitorExit
    \/ ShutdownWorkerStep
    \/ ShutdownDrainTimePasses
    \/ ShutdownClipDone
    \/ ShutdownTimePasses
    \/ ShutdownStopMonitoring
    \/ ShutdownCallerStep

\* the caller and the worker are scheduled and time passes; the monitor's
\* filmstrip creation and the clip thread's ffmpeg run may never end
SpecShutdown ==
    /\ InitShutdown
    /\ [][NextShutdown]_vars
    /\ WF_vars(ShutdownCallerStep)
    /\ WF_vars(ShutdownTimePasses)
    /\ WF_vars(ShutdownWorkerStep)
    /\ WF_vars(ShutdownDrainTimePasses)

\* C14: once the shutdown has begun it returns, whatever the monitor, the
\* worker and the clip thread do, also with the worker stuck in a model call
\* or requests left in the queue; and a worker that has entered its drain
\* loop leaves it as soon as its model calls return.
C14_ShutdownTerminates ==
    /\ (call.phase # "running") ~> (call.phase = "returned")
    /\ (call.worker \in {"drain", "drain_call"} /\ ~call.model_stuck)
           ~> (call.worker = "exit")

\* the shutdown has returned after timed-out waits, the worker still stuck
\* in a model call and a request left in the queue
C14_Witness ==
    /\ call.phase = "returned"
    /\ call.model_stuck
    /\ call.worker \in {"call", "drain_call"}
    /\ call.queue > 0
    /\ {"analysis_wait", "worker_join"} \subseteq call.timeouts

\* ------------------------------------------------------------ C15, C16
\* chunk files followed through the readiness test
MaxPollChunks == 2

PollChunks == 0 .. (MaxPollChunks - 1)

\* the least size in bytes of a chunk that is probed
min_chunk_size == 50000

\* durations are counted in tenths of a second
TenthsPerSecond == 10

Abs(x) == IF x < 0 THEN 0 - x ELSE x

\* what the segment writer leaves on disk as a chunk grows: no file, a file
\* below the size limit, a file ffprobe cannot read yet, then a readable
\* file of growing duration (in tenths of a second); the writer may stop at
\* any stage, and a segment may overrun the chunk length
FileStages ==
    <<[exists |-> FALSE, size |-> 0, probe_ok |-> FALSE, duration |-> 0],
      [exists |-> TRUE, size |-> 49999, probe_ok |-> FALSE, duration |-> 0],
      [exists |-> TRUE, size |-> 50000, probe_ok |-> FALSE, duration |-> 0],
      [exists |-> TRUE, size |-> 50000, probe_ok |-> TRUE, duration |-> 9],
      [exists |-> TRUE, size |-> 50000, probe_ok |-> TRUE, duration |-> 10],
      [exists |-> TRUE, size |-> 50000, probe_ok |-> TRUE, duration |-> 185],
      [exists |-> TRUE, size |-> 50000, probe_ok |-> TRUE, duration |-> 189],
      [exists |-> TRUE, size |-> 50000, probe_ok |-> TRUE, duration |-> 190],
      [exists |-> TRUE, size |-> 50000, probe_ok |-> TRUE, duration |-> 194],
      [exists |-> TRUE, size |-> 50000, probe_ok |-> TRUE, duration |-> 200],
      [exists |-> TRUE, size |-> 50000, probe_ok |-> TRUE, duration |-> 210],
      [exists |-> TRUE, size |-> 50000, probe_ok |-> TRUE, duration |-> 211]>>

\* _verify_chunk_ready: the file exists, has the least size, ffprobe reads
\* it, and its duration is within 1.0 s of the chunk length, or at least
\* 1.0 s for a final chunk
VerifyChunkReady_anylength(file, is_final) ==
    /\ file.exists
    /\ file.size >= min_chunk_size
    /\ file.probe_ok
    /\ file.duration >= TenthsPerSecond
VerifyChunkReady(file, is_final) ==
    /\ file.exists
    /\ file.size >= min_chunk_size
    /\ file.probe_ok
    /\ IF is_final THEN file.duration >= TenthsPerSecond
       ELSE Abs(file.duration - chunk_duration * TenthsPerSecond)
                <= TenthsPerSecond

\* the file of chunk c as it is on disk
FileOf(c) == FileStages[call.stage[c]]

\* chunks the loop examines: listed by glob, not processed, still existing
PollCandidates ==
    {c \in PollChunks : FileOf(c).exists /\ c \notin call.processed}

\* the monitor started, no chunk written yet
InitPoll ==
    /\ InitPipeline
    /\ call = [op |-> "poll", stage |-> [c \in PollChunks |-> 1],
               monitor_running |-> TRUE, processed |-> {},
               handed |-> [c \in PollChunks |-> <<>>], examined |-> {},
               rejected |-> {}]

\* the segment writer goes on with chunk c; chunks are begun in order
ChunkFileGrows(c) ==
    /\ call.stage[c] < Len(FileStages)
    /\ c > 0 => call.stage[c - 1] > 1
    /\ call' = [call EXCEPT !.stage[c] = @ + 1]
    /\ PipelineIdle

\* one pass of _monitor_loop: every candidate is tested as a regular chunk;
\* a ready one gets its filmstrip, is queued and marked processed
PollPass ==
    /\ call.monitor_running
    /\ LET ready == {c \in PollCandidates : VerifyChunkReady(FileOf(c), FALSE)}
       IN  call' = [call EXCEPT
                      !.processed = @ \cup ready,
                      !.handed = [c \in PollChunks |->
                                    IF c \in ready
                                    THEN Append(@[c], FileOf(c).duration)
                                    ELSE @[c]],
                      !.examined = PollCandidates,
                      !.rejected = PollCandidates \ ready]
    /\ PipelineIdle

\* stop_monitoring: the flag is cleared and the thread joined; the loop
\* ends without a further pass
PollStopMonitoring ==
    /\ call.monitor_running
    /\ call' = [call EXCEPT !.monitor_running = FALSE, !.examined = {},
                            !.rejected = {}]
    /\ PipelineIdle

NextPoll ==
    \/ \E c \in PollChunks : ChunkFileGrows(c)
    \/ PollPass
    \/ PollStopMonitoring

SpecPoll == InitPoll /\ [][NextPoll]_vars

\* C15: a chunk is handed off only with a probed duration within 1.0 s of
\* the chunk length; a chunk rejected at a pass is not marked processed and
\* not handed off by it, and the next pass examines it again.
C15_ReadinessTolerance ==
    /\ [](\A c \in PollChunks :
            /\ \A i \in 1 .. Len(call.handed[c]) :
                  Abs(call.handed[c][i] - 200) <= 10
            /\ c \in call.rejected =>
                  c \notin call.processed /\ call.handed[c] = <<>>)
    /\ [][PollPass => call.rejected \subseteq call.examined']_vars

\* 19.4 s has been handed off, and 18.5 s was rejected at the last pass
C15_Witness ==
    /\ call.handed[0] = <<194>>
    /\ 1 \in call.rejected
    /\ FileOf(1).duration = 185

\* C16 as stated: once monitoring is stopped, every unprocessed chunk file
\* of at least 1 s and less than the chunk length minus 1 s has been turned
\* into a filmstrip and queued as the final chunk.
C16_FinalChunkQueued ==
    ~call.monitor_running =>
        \A c \in PollChunks :
            (VerifyChunkReady(FileOf(c), TRUE) /\ FileOf(c).duration < 190)
                => call.handed[c] # <<>>

\* ------------------------------------------------------------------ C17
\* most calls of start_monitoring
MaxMonitorStarts == 2

\* a monitor thread is at its "while self.is_running" test, in its for loop
\* before chunk c, inside _process_chunk for chunk c, or has exited
NewMonitorThread == [pc |-> "while", c |-> 0]

\* a monitor constructed, every chunk file on disk and ready
InitMonitorRestart ==
    /\ InitPipeline
    /\ call = [op |-> "monitor", monitor_running |-> FALSE, threads |-> <<>>,
               processed |-> {}, handed |-> [c \in PollChunks |-> 0],
               starts |-> 0, stops |-> 0, caller |-> "idle"]

\* start_monitoring: nothing when the flag is set, else the flag is set and
\* a new thread started
StartMonitoring ==
    /\ call.caller = "idle"
    /\ call.starts < MaxMonitorStarts
    /\ call' = IF call.monitor_running THEN [call EXCEPT !.starts = @ + 1]
               ELSE [call EXCEPT !.starts = @ + 1,
                                 !.monitor_running = TRUE,
                                 !.threads = Append(@, NewMonitorThread)]
    /\ PipelineIdle

\* stop_monitoring: the flag is cleared and the monitor thread joined
StopMonitoring ==
    /\ call.caller = "idle"
    /\ call.threads # <<>>
    /\ call.stops < MaxMonitorStarts
    /\ call' = [call EXCEPT !.monitor_running = FALSE, !.stops = @ + 1,
                            !.caller = "joining"]
    /\ PipelineIdle

\* monitor_thread.join(timeout=5) returns: the thread has ended, or it is
\* still making a filmstrip after 5 s
MonitorJoinEnds ==
    /\ call.caller = "joining"
    /\ call.threads[Len(call.threads)].pc \in {"exited", "process"}
    /\ call' = [call EXCEPT !.caller = "idle"]
    /\ PipelineIdle

\* the test of the while loop: a new pass over the sorted files, or the end
MonitorWhile(t) ==
    /\ call.threads[t].pc = "while"
    /\ call' = [call EXCEPT !.threads[t] =
                    IF call.monitor_running THEN [pc |-> "for", c |-> 0]
                    ELSE [pc |-> "exited", c |-> 0]]
    /\ PipelineIdle

\* the chunk the for loop is at: "chunk_id not in self.processed_chunks"
\* leads into _process_chunk, else the loop goes on; after the last file
\* the thread sleeps and returns to the while test
MonitorFor(t) ==
    LET c == call.threads[t].c
    IN  /\ call.threads[t].pc = "for"
        /\ call' = IF c \notin PollChunks
                   THEN [call EXCEPT !.threads[t] = [pc |-> "while", c |-> 0]]
                   ELSE IF c \notin call.processed
                   THEN [call EXCEPT !.threads[t].pc = "process"]
                   ELSE [call EXCEPT !.threads[t].c = c + 1]
        /\ PipelineIdle

\* _process_chunk ends: filmstrip made, analysis queued; the chunk is marked
\* processed
MonitorProcessed(t) ==
    LET c == call.threads[t].c
    IN  /\ call.threads[t].pc = "process"
        /\ call' = [call EXCEPT !.threads[t] = [pc |-> "for", c |-> c + 1],
                                !.handed[c] = @ + 1,
                                !.processed = @ \cup {c}]
        /\ PipelineIdle

NextMonitorRestart ==
    \/ StartMonitoring
    \/ StopMonitoring
    \/ MonitorJoinEnds
    \/ \E t \in DOMAIN call.threads : MonitorWhile(t)
    \/ \E t \in DOMAIN call.threads : MonitorFor(t)
    \/ \E t \in DOMAIN call.threads : MonitorProcessed(t)

SpecMonitorRestart == InitMonitorRestart /\ [][NextMonitorRestart]_vars

\* C17 as stated: in every interleaving of start_monitoring, stop_monitoring
\* and the monitor threads, each chunk is turned into a filmstrip and queued
\* at most once.
C17_HandedOffAtMostOnce == \A c \in PollChunks : call.handed[c] <= 1

\* the part of C17 that the code keeps: start_monitoring on a running
\* monitor starts no second thread
C17_OneThreadPerStart == Len(call.threads) <= call.stops + 1

\* ------------------------------------------------------------------ C18
\* seconds the stream monitor is followed
MaxTime == 5

\* values of the stream_timeout parameter, in seconds
StreamTimeouts == {2, 3}

NoPoll == [at |-> None, answer |-> FALSE, idle |-> 0, stopped |-> FALSE]

\* StreamMonitor.__init__ at time 0, the transcription task created but not
\* yet running
InitStream ==
    /\ InitPipeline
    /\ call \in {[op |-> "stream", stream_timeout |-> st, now |-> 0,
                  chunk_count |-> 0, is_running |-> FALSE, ran |-> FALSE,
                  last_chunk_at |-> 0, last_activity_time |-> 0,
                  last_chunk_count |-> 0, transcription_was_running |-> FALSE,
                  poll |-> NoPoll] : st \in StreamTimeouts}

\* the chunk monitor processes a chunk; it is stamped with the second of
\* the poll that comes next
StreamChunkProcessed ==
    /\ call.poll.at # call.now
    /\ call.chunk_count < NumChunks
    /\ call' = [call EXCEPT !.chunk_count = @ + 1, !.last_chunk_at = call.now]
    /\ PipelineIdle

\* the transcription processor starts
TranscriptionStarts ==
    /\ ~call.is_running
    /\ ~call.ran
    /\ call' = [call EXCEPT !.is_running = TRUE, !.ran = TRUE]
    /\ PipelineIdle

\* the transcription processor stops
TranscriptionStops ==
    /\ call.is_running
    /\ call' = [call EXCEPT !.is_running = FALSE]
    /\ PipelineIdle

\* update_activity: the inactivity timer restarts when the chunk counter
\* has advanced
UpdateActivity(c) ==
    IF c.chunk_count > c.last_chunk_count
    THEN [c EXCEPT !.last_activity_time = c.now,
                   !.last_chunk_count = c.chunk_count]
    ELSE c

\* stream_appears_ended, called by the processing loop once a second
StreamAppearsEnded ==
    /\ call.poll.at # call.now
    /\ LET truth == [at |-> call.now, answer |-> FALSE,
                     idle |-> call.now - call.last_chunk_at,
                     stopped |-> call.ran /\ ~call.is_running]
       IN  IF call.transcription_was_running /\ ~call.is_running
           THEN call' = [call EXCEPT !.poll = [truth EXCEPT !.answer = TRUE]]
           ELSE LET c == UpdateActivity(call)
                IN  call' = [c EXCEPT !.poll = [truth EXCEPT !.answer =
                        c.now - c.last_activity_time >= c.stream_timeout]]
    /\ PipelineIdle

\* the loop sleeps a second
StreamSecondPasses ==
    /\ call.poll.at = call.now
    /\ call.now < MaxTime
    /\ call' = [call EXCEPT !.now = @ + 1]
    /\ PipelineIdle

NextStream ==
    \/ StreamChunkProcessed
    \/ TranscriptionStarts
    \/ TranscriptionStops
    \/ StreamAppearsEnded
    \/ StreamSecondPasses

SpecStream == InitStream /\ [][NextStream]_vars

\* C18 as stated: stream_appears_ended answers true whenever no chunk has
\* appeared for stream_timeout seconds or the transcription has stopped
\* after running, and false otherwise.
C18_EitherSignal ==
    call.poll.at # None =>
        (call.poll.answer <=>
            (call.poll.idle >= call.stream_timeout \/ call.poll.stopped))

\* the part of C18 that the code keeps: the answer is the inactivity signal
C18_InactivityOnly ==
    call.poll.at # None =>
        (call.poll.answer <=> call.poll.idle >= call.stream_timeout)

\* ------------------------------------------------------------------ C19
\* longest frame sequence given to the detector
MaxFrames == 3

\* a frame is a row of one or two pixels; a pixel is its grey level, which
\* is also its histogram bin
PixelValues == {0, 2, 4}

Frames == [1 .. 1 -> PixelValues] \cup [1 .. 2 -> PixelValues]

FrameSequences == UNION {[1 .. n -> Frames] : n \in 1 .. MaxFrames}

\* thresholds as fractions n/d: 0.3, 0.7 and 5
Thresholds == {[n |-> 3, d |-> 10], [n |-> 7, d |-> 10], [n |-> 5, d |-> 1]}

Methods == {"histogram", "mse"}

RECURSIVE SumOver(_, _)
\* the sum of f[i] over the indices i of S
SumOver(f, S) ==
    IF S = {} THEN 0
    ELSE LET i == CHOOSE j \in S : TRUE IN f[i] + SumOver(f, S \ {i})

\* cv2.calcHist: the number of pixels of the frame in each bin
CalcHist(frame) ==
    [b \in PixelValues |-> Cardinality({i \in DOMAIN frame : frame[i] = b})]

\* cv2.compareHist(h1, h2, HISTCMP_CORREL) < n/d, in integers: the
\* correlation is num / sqrt(d1 * d2), and 1 when d1 * d2 is 0
CorrelationBelow(h1, h2, thr) ==
    LET N == Cardinality(PixelValues)
        s1 == SumOver(h1, PixelValues)
        s2 == SumOver(h2, PixelValues)
        num == N * SumOver([b \in PixelValues |-> h1[b] * h2[b]], PixelValues)
                 - s1 * s2
        d1 == N * SumOver([b \in PixelValues |-> h1[b] * h1[b]], PixelValues)
                 - s1 * s1
        d2 == N * SumOver([b \in PixelValues |-> h2[b] * h2[b]], PixelValues)
                 - s2 * s2
    IN  IF d1 * d2 = 0 THEN thr.d < thr.n
        ELSE IF num < 0 THEN TRUE
        ELSE num * num * thr.d * thr.d < thr.n * thr.n * d1 * d2

\* cv2.resize of a row to the given width: a pixel is doubled, two pixels
\* are averaged
Resize(frame, width) ==
    IF Len(frame) = width THEN frame
    ELSE IF width = 2 THEN <<frame[1], frame[1]>>
    ELSE <<(frame[1] + frame[2]) \div 2>>

\* _calculate_mse(frame1, frame2) > n/d: the second frame is resized to the
\* shape of the first, the squared differences are averaged
MseAbove(frame1, frame2, thr) ==
    LET g2 == Resize(frame2, Len(frame1))
        sq == [i \in DOMAIN frame1 |->
                  (frame1[i] - g2[i]) * (frame1[i] - g2[i])]
    IN  SumOver(sq, DOMAIN frame1) * thr.d > thr.n * Len(frame1)

\* _compare_frames_histogram / _compare_frames_mse of detect_batch
CompareFrames_swapped(method, frame1, frame2, thr) ==
    IF method = "histogram"
    THEN CorrelationBelow(CalcHist(frame2), CalcHist(frame1), thr)
    ELSE MseAbove(frame2, frame1, thr)
CompareFrames(method, frame1, frame2, thr) ==
    IF method = "histogram"
    THEN CorrelationBelow(CalcHist(frame1), CalcHist(frame2), thr)
    ELSE MseAbove(frame1, frame2, thr)

\* a new detector: no retained frame, no retained histogram
NoFrame == <<>>
FreshDetector(method, thr, cross) ==
    [method |-> method, threshold |-> thr, enable_cross_chunk |-> cross,
     last_frame |-> NoFrame, previous_histogram |-> NoFrame]

\* detect_single: the answer and the detector after it
DetectSingle(d, frame) ==
    IF d.method = "histogram"
    THEN LET histogram == CalcHist(frame)
         IN  [detector |-> [d EXCEPT !.previous_histogram = histogram],
              change |-> IF d.previous_histogram # NoFrame
                         THEN CorrelationBelow(d.previous_histogram,
                                               histogram, d.threshold)
                         ELSE FALSE]
    ELSE [detector |-> [d EXCEPT !.last_frame = frame],
          change |-> IF d.last_frame # NoFrame
                     THEN MseAbove(d.last_frame, frame, d.threshold)
                     ELSE FALSE]

RECURSIVE DetectSingles(_, _)
\* the frames fed one by one to detect_single: the answers in order
DetectSingles(d, frames) ==
    IF frames = <<>> THEN <<>>
    ELSE LET r == DetectSingle(d, Head(frames))
         IN  <<r.change>> \o DetectSingles(r.detector, Tail(frames))

\* detect_batch: the answers and the detector after it
DetectBatch(d, frames) ==
    IF Len(frames) < 2
    THEN [detector |-> d, changes |-> [i \in DOMAIN frames |-> FALSE]]
    ELSE [detector |-> IF d.enable_cross_chunk
                       THEN [d EXCEPT !.last_frame = frames[Len(frames)]]
                       ELSE d,
          changes |-> [i \in DOMAIN frames |->
              IF i = 1
              THEN /\ d.enable_cross_chunk
                   /\ d.last_frame # NoFrame
                   /\ CompareFrames(d.method, d.last_frame, frames[1],
                                    d.threshold)
              ELSE CompareFrames(d.method, frames[i - 1], frames[i],
                                 d.threshold)]]

InitShots ==
    /\ InitPipeline
    /\ keep_n_chapters = None
    /\ call \in {[op |-> "shots", method |-> m, threshold |-> t,
                  enable_cross_chunk |-> x, frames |-> fs, done |-> FALSE,
                  single |-> <<>>, batch |-> <<>>] :
                    m \in Methods, t \in Thresholds, x \in {TRUE},
                    fs \in FrameSequences}

\* the same frames go one by one to a new detector and at once to another
DetectBoth ==
    /\ ~call.done
    /\ LET d == FreshDetector(call.method, call.threshold,
                              call.enable_cross_chunk)
       IN  call' = [call EXCEPT !.done = TRUE,
                                !.single = DetectSingles(d, call.frames),
                                !.batch = DetectBatch(d, call.frames).changes]
    /\ PipelineIdle

NextShots == DetectBoth

SpecShots == InitShots /\ [][NextShots]_vars

\* C19: on new detectors with the same method and threshold, detect_single
\* fed frame by frame and detect_batch fed the whole sequence give the same
\* answer for every frame; for the first frame both say no shot change, as
\* no frame is retained yet.
C19_BatchAgreesWithSingle ==
    call.done =>
        /\ Len(call.single) = Len(call.frames)
        /\ Len(call.batch) = Len(call.frames)
        /\ \A i \in DOMAIN call.frames : call.single[i] = call.batch[i]
        /\ ~call.batch[1]

\* frames of different widths under the mse method, a shot change found by
\* both at the second frame and none at the third
C19_Witness ==
    /\ call.done
    /\ call.method = "mse"
    /\ call.frames = << <<0, 4>>, <<0>>, <<0, 4>> >>
    /\ call.threshold = [n |-> 5, d |-> 1]
    /\ call.batch = <<FALSE, TRUE, FALSE>>
    /\ call.single = <<FALSE, TRUE, FALSE>>

\* ------------------------------------------------------------------ C20
\* the least cell side in pixels the layout search and the file-size
\* downscaling accept
min_cell_size == 100

\* the search tries 1 .. 20 rows and 1 .. 20 columns
max_grid_tries == 20

\* _estimate_file_size at quality 95 is pixels * 2.8 / (8 * 1024 * 1024) MB,
\* that is pixels * 7 / bytes_ratio
bytes_ratio == 20971520

\* the layout returned when no computed layout fits
FallbackLayout == <<512, 512, 4, 5>>

\* no fixed_grid_layout, no max_file_size_mb
NoLayout == <<>>
NoLimit == 0

\* the constructor parameters and the videos the layout is computed for
MaxGridSizes == {<<8000, 8000>>, <<2200, 3000>>, <<1000, 1000>>}
SourceResolutions == {<<1920, 1080>>, <<640, 480>>}
FixedLayouts == {NoLayout, <<4, 5>>, <<2, 2>>}
FileSizeLimits == {NoLimit, 1, 5}
GridImageLimits == {1, 20}
TotalFrames == {0, 500, 15000}

RECURSIVE FracLeq(_, _, _, _)
\* a/c <= d/b for naturals a, d and positive c, b, without forming products
FracLeq(a, c, d, b) ==
    IF a \div c # d \div b THEN a \div c < d \div b
    ELSE IF a % c = 0 THEN TRUE
    ELSE IF d % b = 0 THEN FALSE
    ELSE FracLeq(b, d % b, c, a % c)

\* width and height of a grid image with the given cells
TotalWidth(p, cols, cell_width) == cols * cell_width + (cols + 1) * p.border
TotalHeight(p, rows, cell_height) ==
    rows * (cell_height + p.label_height) + (rows + 1) * p.border

RECURSIVE ScaleSearch(_, _, _, _, _)
\* the greatest k in lo .. hi - 1 with (k / cell)^2 <= limit / size
ScaleSearch(lo, hi, cell, limit, size) ==
    IF hi - lo <= 1 THEN lo
    ELSE LET mid == (lo + hi) \div 2
         IN  IF FracLeq(mid * mid, cell * cell, limit, size)
             THEN ScaleSearch(mid, hi, cell, limit, size)
             ELSE ScaleSearch(lo, mid, cell, limit, size)

\* int(cell * scale_factor) with scale_factor = sqrt(limit / size) < 1
Downscaled(cell, limit, size) ==
    IF cell <= 0 THEN 0 ELSE ScaleSearch(0, cell, cell, limit, size)

\* _apply_file_size_constraint: cells are scaled down to meet the size
\* limit, and set to the least cell size when the scaling goes below it
ApplyFileSizeConstraint(p, cell_width, cell_height, rows, cols, src) ==
    LET size == TotalWidth(p, cols, cell_width)
                   * TotalHeight(p, rows, cell_height) * 7
        limit == p.max_file_size_mb * bytes_ratio
        w == Downscaled(cell_width, limit, size)
        h == Downscaled(cell_height, limit, size)
    IN  IF size <= limit THEN <<cell_width, cell_height>>
        ELSE IF w < min_cell_size \/ h < min_cell_size
        THEN <<(min_cell_size * src[1]) \div src[2], min_cell_size>>
        ELSE <<w, h>>

\* a layout with the file-size limit applied when there is one
WithFileSize(p, cell_width, cell_height, rows, cols, src) ==
    IF p.max_file_size_mb = NoLimit
    THEN <<cell_width, cell_height, rows, cols>>
    ELSE LET c == ApplyFileSizeConstraint(p, cell_width, cell_height, rows,
                                          cols, src)
         IN  <<c[1], c[2], rows, cols>>

\* the cells of a rows x cols grid filling the largest grid image, cut to
\* the aspect ratio of the source
FittedCell(p, rows, cols, src) ==
    LET w == (p.max_width - (cols + 1) * p.border) \div cols
        h == (p.max_height - (rows + 1) * p.border - rows * p.label_height)
                 \div rows
    IN  [raw |-> <<w, h>>,
         cell |-> IF w * src[2] > src[1] * h
                  THEN <<(h * src[1]) \div src[2], h>>
                  ELSE <<w, (w * src[2]) \div src[1]>>]

Fits(p, rows, cols, cell) ==
    /\ TotalWidth(p, cols, cell[1]) <= p.max_width
    /\ TotalHeight(p, rows, cell[2]) <= p.max_height

\* _calculate_grid_dimensions with a fixed_grid_layout
FixedGridDimensions(p, src) ==
    LET rows == p.fixed_grid_layout[1]
        cols == p.fixed_grid_layout[2]
        cell == IF p.preserve_source_resolution THEN src
                ELSE FittedCell(p, rows, cols, src).cell
    IN  IF ~Fits(p, rows, cols, cell) THEN FallbackLayout
        ELSE WithFileSize(p, cell[1], cell[2], rows, cols, src)

\* _calculate_grid_dimensions preserving the source resolution
PreservedGridDimensions(p, src) ==
    LET max_cols == (p.max_width - p.border) \div (src[1] + p.border)
        max_rows == (p.max_height - p.border)
                        \div (src[2] + p.label_height + p.border)
    IN  IF max_cols < 1 \/ max_rows < 1 THEN FallbackLayout
        ELSE WithFileSize(p, src[1], src[2], max_rows, max_cols, src)

\* _calculate_grid_dimensions searching for the most frames: the first
\* layout in row-major order among those with the most cells
OptimizedGridDimensions(p, src) ==
    LET tries == (1 .. max_grid_tries) \X (1 .. max_grid_tries)
        ok == {rc \in tries :
                 LET f == FittedCell(p, rc[1], rc[2], src)
                 IN  /\ f.raw[1] >= min_cell_size
                     /\ f.raw[2] >= min_cell_size
                     /\ Fits(p, rc[1], rc[2], f.cell)}
        most == Max({rc[1] * rc[2] : rc \in ok})
        best == CHOOSE rc \in ok :
                   /\ rc[1] * rc[2] = most
                   /\ \A o \in ok : o[1] * o[2] = most =>
                         \/ rc[1] < o[1]
                         \/ rc[1] = o[1] /\ rc[2] <= o[2]
    IN  IF ok = {} THEN FallbackLayout
        ELSE LET cell == FittedCell(p, best[1], best[2], src).cell
             IN  WithFileSize(p, cell[1], cell[2], best[1], best[2], src)

CalculateGridDimensions(p, src) ==
    IF p.fixed_grid_layout # NoLayout THEN FixedGridDimensions(p, src)
    ELSE IF p.preserve_source_resolution THEN PreservedGridDimensions(p, src)
    ELSE OptimizedGridDimensions(p, src)

\* calculate_optimal_layout
CalculateOptimalLayout(p, total_frames, src) ==
    LET g == CalculateGridDimensions(p, src)
        frames_per_grid == g[3] * g[4]
        max_total_frames == frames_per_grid * p.max_grid_images
        sampling_rate ==
            IF total_frames <= max_total_frames THEN 1
            ELSE (total_frames + max_total_frames - 1) \div max_total_frames
        frames_to_extract == (total_frames + sampling_rate - 1) \div sampling_rate
    IN  [total_frames |-> total_frames, frames_per_grid |-> frames_per_grid,
         grid_rows |-> g[3], grid_cols |-> g[4], cell_size |-> <<g[1], g[2]>>,
         num_grids_needed |->
             (frames_to_extract + frames_per_grid - 1) \div frames_per_grid,
         sampling_rate |-> sampling_rate,
         frames_to_extract |-> frames_to_extract,
         max_frames_capacity |-> max_total_frames]

NoResult == [grid_rows |-> 0]

InitLayout ==
    /\ InitPipeline
    /\ keep_n_chapters = None
    /\ call \in {[op |-> "layout",
                  p |-> [max_width |-> g[1], max_height |-> g[2],
                         max_grid_images |-> n, border |-> 8,
                         label_height |-> 40, preserve_source_resolution |-> pr,
                         fixed_grid_layout |-> fx, max_file_size_mb |-> mb],
                  source_resolution |-> src, total_frames |-> tf,
                  done |-> FALSE, layout |-> NoResult] :
                    g \in MaxGridSizes, n \in GridImageLimits, pr \in BOOLEAN,
                    fx \in FixedLayouts, mb \in FileSizeLimits,
                    src \in SourceResolutions, tf \in TotalFrames}

ComputeLayout ==
    /\ ~call.done
    /\ call' = [call EXCEPT !.done = TRUE,
                            !.layout = CalculateOptimalLayout(
                                call.p, call.total_frames,
                                call.source_resolution)]
    /\ PipelineIdle

NextLayout == ComputeLayout

SpecLayout == InitLayout /\ [][NextLayout]_vars

\* C20 as stated: in every mode the returned layout fits the largest grid
\* image in width and in height, and needs no more grid images than
\* max_grid_images.
C20_LayoutWithinBounds ==
    call.done =>
        /\ TotalWidth(call.p, call.layout.grid_cols, call.layout.cell_size[1])
               <= call.p.max_width
        /\ TotalHeight(call.p, call.layout.grid_rows, call.layout.cell_size[2])
               <= call.p.max_height
        /\ call.layout.num_grids_needed <= call.p.max_grid_images

\* the part of C20 that the code keeps: the number of grid images
C20_GridCountBounded ==
    call.done => call.layout.num_grids_needed <= call.p.max_grid_images

\* the part of C20 that the code keeps: a layout that is not the fallback
\* and was not reset to the least cell size fits the largest grid image
C20_ComputedLayoutFits ==
    (/\ call.done
     /\ call.p.max_file_size_mb = NoLimit
     /\ <<call.layout.cell_size[1], call.layout.cell_size[2],
          call.layout.grid_rows, call.layout.grid_cols>> # FallbackLayout)
        => Fits(call.p, call.layout.grid_rows, call.layout.grid_cols,
                call.layout.cell_size)

\* ==================================================================
\* Frame extraction (FilmstripProcessor.extract_frames_from_video).
\* Times are milliseconds.  A frame is "decoded" (cap.read gave it) or
\* "black" (the placeholder put in its slot).
\* ==================================================================
ExtractStartTimes == {0, 20000}
ExtractIntervals == {500, 1000}

\* time_offset = i * interval + (interval / 2)
TimeOffset_slotstart(i, interval) == i * interval
TimeOffset(i, interval) == i * interval + interval \div 2

InitExtract ==
    /\ InitPipeline
    /\ keep_n_chapters = None
    /\ call \in [op : {"extract_frames_from_video"},
                 start_time : ExtractStartTimes,
                 num_frames : 0 .. MaxFrames,
                 interval : ExtractIntervals,
                 pc : {"open"}, opened : {FALSE}, i : {0},
                 frames_with_timestamps : {<<>>}]

\* cap = cv2.VideoCapture(video_file); if not cap.isOpened(): sleep, retry
ExtractOpen ==
    /\ call.op = "extract_frames_from_video" /\ call.pc = "open"
    /\ \E isOpened \in BOOLEAN :
           call' = [call EXCEPT !.opened = isOpened,
                                !.pc = IF isOpened THEN "loop" ELSE "retry"]
    /\ PipelineIdle

\* the second VideoCapture; still not opened: return the empty list
ExtractRetry ==
    /\ call.op = "extract_frames_from_video" /\ call.pc = "retry"
    /\ \E isOpened \in BOOLEAN :
           call' = [call EXCEPT !.opened = isOpened,
                                !.pc = IF isOpened THEN "loop" ELSE "returned"]
    /\ PipelineIdle

\* one turn of "for i in range(num_frames)": seek, read, append the frame
\* or the black placeholder with timestamp = start_time + time_offset
ExtractFrame ==
    /\ call.op = "extract_frames_from_video" /\ call.pc = "loop"
    /\ call.i < call.num_frames
    /\ \E ret \in BOOLEAN :
           LET time_offset == TimeOffset(call.i, call.interval)
               timestamp == call.start_time + time_offset
               frame == IF ret THEN "decoded" ELSE "black"
           IN  call' = [call EXCEPT
                   !.frames_with_timestamps =
                       Append(@, [frame |-> frame, timestamp |-> timestamp]),
                   !.i = @ + 1]
    /\ PipelineIdle

\* cap.release(); return frames_with_timestamps
ExtractReturn ==
    /\ call.op = "extract_frames_from_video" /\ call.pc = "loop"
    /\ call.i = call.num_frames
    /\ call' = [call EXCEPT !.pc = "returned"]
    /\ PipelineIdle

NextExtract == ExtractOpen \/ ExtractRetry \/ ExtractFrame \/ ExtractReturn

SpecExtract == InitExtract /\ [][NextExtract]_vars

\* the returned list has num_frames entries, entry i (from 0) stamped
\* start_time + i*interval + interval/2, in strictly increasing order
SlotsKept ==
    LET r == call.frames_with_timestamps
    IN  /\ Len(r) = call.num_frames
        /\ \A k \in 1 .. Len(r) :
               r[k].timestamp = call.start_time + (k - 1) * call.interval
                                    + call.interval \div 2
        /\ \A k \in 1 .. Len(r) - 1 : r[k].timestamp < r[k + 1].timestamp

\* C21 as stated: every call of extract_frames_from_video returns exactly
\* num_frames entries stamped start_time + i*interval + interval/2, in
\* strictly increasing order, whichever frames decode.
C21_ExactlyNumFrames ==
    (call.op = "extract_frames_from_video" /\ call.pc = "returned") => SlotsKept

\* C21 amended: when the video file opens (at the first attempt or at the
\* retry) the call returns exactly num_frames entries stamped
\* start_time + i*interval + interval/2 in strictly increasing order,
\* whichever frames decode and whichever are black placeholders; when the
\* file opens at neither attempt the call returns the empty list.
C21_SlotsKeptWhenOpened ==
    (call.op = "extract_frames_from_video" /\ call.pc = "returned") =>
        IF call.opened THEN SlotsKept
        ELSE call.frames_with_timestamps = <<>>

C21_Witness ==
    /\ call.op = "extract_frames_from_video" /\ call.pc = "returned"
    /\ call.opened /\ call.num_frames >= 2
    /\ call.frames_with_timestamps[1].frame = "black"
    /\ call.frames_with_timestamps[2].frame = "decoded"
    /\ call.frames_with_timestamps[2].timestamp = 21500

\* ==================================================================
\* Filmstrip grid (FilmstripProcessor.create_filmstrip, _create_grid).
\* The input frames are named by their index in frames_with_timestamps.
\* ==================================================================
MaxGridRows == 2
MaxGridCols == 3
MaxExtraFrames == 2

\* frames_with_timestamps[:max_frames]
GridSlice_all(frames, max_frames) == frames
GridSlice(frames, max_frames) ==
    SubSeq(frames, 1, IF Len(frames) < max_frames THEN Len(frames) ELSE max_frames)

\* row = idx // self.grid_cols, col = idx % self.grid_cols
GridCell(idx, grid_cols) == [row |-> idx \div grid_cols, col |-> idx % grid_cols]

InitGrid ==
    /\ InitPipeline
    /\ keep_n_chapters = None
    /\ \E rows \in 1 .. MaxGridRows, cols \in 1 .. MaxGridCols :
       \E n \in 0 .. rows * cols + MaxExtraFrames :
           call = [op |-> "create_filmstrip", grid_rows |-> rows,
                   grid_cols |-> cols,
                   frames_with_timestamps |-> [i \in 1 .. n |-> i - 1],
                   pc |-> "called", to_place |-> <<>>, placed |-> <<>>,
                   saved |-> FALSE]

\* create_filmstrip up to the call of _create_grid, and the start of
\* _create_grid: an empty list returns at once; otherwise the background is
\* made and the loop runs over the first max_frames entries
CreateFilmstrip ==
    /\ call.op = "create_filmstrip" /\ call.pc = "called"
    /\ call' = IF call.frames_with_timestamps = <<>>
               THEN [call EXCEPT !.pc = "returned"]
               ELSE LET max_frames == call.grid_rows * call.grid_cols
                    IN  [call EXCEPT
                            !.pc = "grid",
                            !.to_place = GridSlice(call.frames_with_timestamps,
                                                   max_frames)]
    /\ PipelineIdle

\* one turn of the loop of _create_grid: resize, paste and label one frame
GridPlaceFrame ==
    /\ call.op = "create_filmstrip" /\ call.pc = "grid"
    /\ Len(call.placed) < Len(call.to_place)
    /\ LET idx == Len(call.placed)
           cell == GridCell(idx, call.grid_cols)
       IN  call' = [call EXCEPT !.placed =
                        Append(@, [frame |-> call.to_place[idx + 1],
                                   row |-> cell.row, col |-> cell.col])]
    /\ PipelineIdle

\* borders drawn, image saved, create_filmstrip returns
GridSave ==
    /\ call.op = "create_filmstrip" /\ call.pc = "grid"
    /\ Len(call.placed) = Len(call.to_place)
    /\ call' = [call EXCEPT !.saved = TRUE, !.pc = "returned"]
    /\ PipelineIdle

NextGrid == CreateFilmstrip \/ GridPlaceFrame \/ GridSave

SpecGrid == InitGrid /\ [][NextGrid]_vars

\* C22: create_filmstrip never places more than rows*cols frames; of
\* rows*cols + k input frames exactly the first rows*cols are placed, frame
\* idx in row idx div cols and column idx mod cols, every cell inside the
\* grid and used once; the k extra frames are dropped and the image is saved.
C22_GridCapacity ==
    call.op = "create_filmstrip" =>
        LET capacity == call.grid_rows * call.grid_cols
            n == Len(call.frames_with_timestamps)
            p == call.placed
        IN  /\ Len(p) <= capacity
            /\ \A k \in 1 .. Len(p) :
                   /\ p[k].frame = k - 1
                   /\ p[k].row = (k - 1) \div call.grid_cols
                   /\ p[k].col = (k - 1) % call.grid_cols
                   /\ p[k].row < call.grid_rows /\ p[k].col < call.grid_cols
            /\ \A j, k \in 1 .. Len(p) :
                   (p[j].row = p[k].row /\ p[j].col = p[k].col) => j = k
            /\ (call.pc = "returned" /\ n >= capacity) =>
                   (Len(p) = capacity /\ call.saved)
            /\ (call.pc = "returned" /\ n < capacity) => Len(p) = n

C22_Witness ==
    /\ call.op = "create_filmstrip" /\ call.pc = "returned" /\ call.saved
    /\ call.grid_rows = 2 /\ call.grid_cols = 3
    /\ Len(call.frames_with_timestamps) = 8
    /\ Len(call.placed) = 6
    /\ call.placed[5] = [frame |-> 4, row |-> 1, col |-> 1]

\* ==================================================================
\* Transcript of a time range (FusionAnalyzer._get_transcript_for_timerange).
\* A text is a sequence of pieces; " ".join puts the piece " " between
\* two sentences.
\* ==================================================================
MaxSentences == 2

SentencePool ==
    {[sentence |-> "a", start_time |-> 0, end_time |-> 10],
     [sentence |-> "b", start_time |-> 10, end_time |-> 20],
     [sentence |-> "c", start_time |-> 20, end_time |-> 20],
     [sentence |-> "d", start_time |-> 15, end_time |-> 25],
     [sentence |-> "e", start_time |-> 30, end_time |-> 40]}

SentenceBuffers == UNION {[1 .. n -> SentencePool] : n \in 0 .. MaxSentences}

TimeRanges == {<<0, 20>>, <<20, 40>>, <<26, 29>>}

NoTranscriptText == <<"[No transcript available for this time range]">>

\* sentence_start <= end_time and sentence_end >= start_time
SentenceOverlaps_halfopen(sentence_data, start_time, end_time) ==
    sentence_data.start_time < end_time /\ sentence_data.end_time > start_time
SentenceOverlaps(sentence_data, start_time, end_time) ==
    sentence_data.start_time <= end_time /\ sentence_data.end_time >= start_time

\* " ".join(relevant_sentences)
RECURSIVE JoinWithSpace(_)
JoinWithSpace(texts) ==
    IF Len(texts) = 0 THEN <<>>
    ELSE IF Len(texts) = 1 THEN <<texts[1]>>
    ELSE <<texts[1], " ">> \o JoinWithSpace(Tail(texts))

SentenceJson(sentence_data) ==
    [sentence_start_time_in_sec |-> sentence_data.start_time,
     sentence_end_time_in_sec |-> sentence_data.end_time,
     sentence |-> sentence_data.sentence]

GetTranscriptForTimerange(start_time, end_time, sentence_buffer) ==
    LET test(sd) == SentenceOverlaps(sd, start_time, end_time)
        relevant == SelectSeq(sentence_buffer, test)
        relevant_sentences == [k \in 1 .. Len(relevant) |-> relevant[k].sentence]
        relevant_sentences_json ==
            [k \in 1 .. Len(relevant) |-> SentenceJson(relevant[k])]
    IN  [text |-> IF relevant_sentences # <<>>
                  THEN JoinWithSpace(relevant_sentences)
                  ELSE NoTranscriptText,
         sentences |-> relevant_sentences_json]

InitTranscript ==
    /\ InitPipeline
    /\ keep_n_chapters = None
    /\ call \in [op : {"get_transcript"}, sentence_buffer : SentenceBuffers,
                 range : TimeRanges, done : {FALSE},
                 result : {[text |-> <<>>, sentences |-> <<>>]}]

GetTranscript ==
    /\ call.op = "get_transcript" /\ ~call.done
    /\ call' = [call EXCEPT
                   !.done = TRUE,
                   !.result = GetTranscriptForTimerange(
                                  call.range[1], call.range[2],
                                  call.sentence_buffer)]
    /\ PipelineIdle

NextTranscript == GetTranscript

SpecTranscript == InitTranscript /\ [][NextTranscript]_vars

\* C23: for every buffer and range (start, end) the call returns, in buffer
\* order, exactly the sentences with sentence_start <= end and
\* sentence_end >= start (both boundaries inclusive), the text being these
\* sentences joined, or the no-transcript placeholder and an empty list
\* when none matches; the buffer is left as it was.
C23_TranscriptReadContract ==
    /\ [](call.op = "get_transcript" /\ call.done =>
            LET buf == call.sentence_buffer
                hit == {i \in 1 .. Len(buf) :
                           /\ buf[i].start_time <= call.range[2]
                           /\ buf[i].end_time >= call.range[1]}
                rank(i) == Cardinality({j \in hit : j <= i})
                r == call.result
            IN  /\ Len(r.sentences) = Cardinality(hit)
                /\ \A i \in hit :
                       /\ r.sentences[rank(i)].sentence = buf[i].sentence
                       /\ r.sentences[rank(i)].sentence_start_time_in_sec
                              = buf[i].start_time
                       /\ r.sentences[rank(i)].sentence_end_time_in_sec
                              = buf[i].end_time
                       /\ r.text[2 * rank(i) - 1] = buf[i].sentence
                /\ hit # {} => Len(r.text) = 2 * Cardinality(hit) - 1
                /\ hit = {} => (r.text = NoTranscriptText /\ r.sentences = <<>>))
    /\ [][call.op = "get_transcript" =>
              call'.sentence_buffer = call.sentence_buffer]_vars

\* a sentence ending at 20 is returned for the range (20, 40) as well
C23_Witness ==
    /\ call.op = "get_transcript" /\ call.done
    /\ call.range = <<20, 40>>
    /\ Len(call.sentence_buffer) = 2
    /\ call.sentence_buffer[1].sentence = "b"
    /\ call.sentence_buffer[2].sentence = "e"
    /\ call.result.text = <<"b", " ", "e">>

\* ==================================================================
\* Cross-chunk state: one ShotChangeDetector used over several calls,
\* alone (detect_single, detect_batch, reset) or inside a
\* FilmstripProcessor (create_filmstrip, reset_cross_chunk_tracking).
\* ==================================================================
MaxBatchLen == 2
MaxDetectorCalls == 3

CrossFrames == {<<0>>, <<4>>, <<0, 4>>}
FrameBatches == UNION {[1 .. n -> CrossFrames] : n \in 0 .. MaxBatchLen}

\* the detector is fed frame by frame (Visual Understanding) or batch by
\* batch (Modality Fusion)
DetectorUses == {"single", "batch"}

NoDetectorCall ==
    [kind |-> "none", frames |-> <<>>, changes |-> <<>>,
     previous_last |-> NoFrame, first_after |-> "none"]

InitCrossChunk ==
    /\ InitPipeline
    /\ keep_n_chapters = None
    /\ call \in {[op |-> "cross_chunk", use |-> u,
                  shot_detector |-> FreshDetector(m, t, x),
                  last_frame |-> NoFrame,
                  calls |-> 0, previous_last |-> NoFrame,
                  reset_done |-> "none", last_call |-> NoDetectorCall] :
                    u \in DetectorUses, m \in Methods, t \in Thresholds,
                    x \in BOOLEAN}

\* what the calls below keep of a detection: the batch, the answer, the
\* last frame of the latest earlier non-empty batch, and which reset, if
\* any, came right before
DetectorCalled(kind, frames, changes) ==
    [kind |-> kind, frames |-> frames, changes |-> changes,
     previous_last |-> call.previous_last, first_after |-> call.reset_done]

\* shot_detector.detect_batch(frames)
CallDetectBatch ==
    /\ call.op = "cross_chunk" /\ call.use = "batch"
    /\ call.calls < MaxDetectorCalls
    /\ \E frames \in FrameBatches :
           LET r == DetectBatch(call.shot_detector, frames)
           IN  call' = [call EXCEPT
                   !.shot_detector = r.detector,
                   !.calls = @ + 1,
                   !.previous_last = IF frames = <<>> THEN @
                                     ELSE frames[Len(frames)],
                   !.reset_done = "none",
                   !.last_call = DetectorCalled("detect_batch", frames,
                                                r.changes)]
    /\ PipelineIdle

\* FilmstripProcessor.create_filmstrip(frames, path, True): nothing is done
\* for an empty list; otherwise detect_batch, the grid, and the last frame
\* is kept in self.last_frame
CallCreateFilmstrip ==
    /\ call.op = "cross_chunk" /\ call.use = "batch"
    /\ call.calls < MaxDetectorCalls
    /\ \E frames \in FrameBatches :
           IF frames = <<>>
           THEN call' = [call EXCEPT
                   !.calls = @ + 1,
                   !.last_call = DetectorCalled("create_filmstrip", frames, <<>>)]
           ELSE LET r == DetectBatch(call.shot_detector, frames)
                IN  call' = [call EXCEPT
                        !.shot_detector = r.detector,
                        !.last_frame = frames[Len(frames)],
                        !.calls = @ + 1,
                        !.previous_last = frames[Len(frames)],
                        !.reset_done = "none",
                        !.last_call = DetectorCalled("create_filmstrip",
                                                     frames, r.changes)]
    /\ PipelineIdle

\* shot_detector.detect_single(frame, n)
CallDetectSingle ==
    /\ call.op = "cross_chunk" /\ call.use = "single"
    /\ call.calls < MaxDetectorCalls
    /\ \E frame \in CrossFrames :
           LET r == DetectSingle(call.shot_detector, frame)
           IN  call' = [call EXCEPT
                   !.shot_detector = r.detector,
                   !.calls = @ + 1,
                   !.previous_last = frame,
                   !.reset_done = "none",
                   !.last_call = DetectorCalled("detect_single", <<frame>>,
                                                <<r.change>>)]
    /\ PipelineIdle

\* FilmstripProcessor.reset_cross_chunk_tracking: self.last_frame = None
ResetCrossChunkTracking ==
    /\ call.op = "cross_chunk" /\ call.use = "batch"
    /\ call.calls > 0 /\ call.reset_done = "none"
    /\ call' = [call EXCEPT !.last_frame = NoFrame,
                            !.reset_done = "reset_cross_chunk_tracking",
                            !.last_call = NoDetectorCall]
    /\ PipelineIdle

\* ShotChangeDetector.reset: last_frame = None, previous_histogram = None
DetectorReset ==
    /\ call.op = "cross_chunk"
    /\ call.calls > 0 /\ call.reset_done = "none"
    /\ call' = [call EXCEPT
                   !.shot_detector = [@ EXCEPT !.last_frame = NoFrame,
                                               !.previous_histogram = NoFrame],
                   !.previous_last = NoFrame,
                   !.reset_done = "reset",
                   !.last_call = NoDetectorCall]
    /\ PipelineIdle

NextCrossChunk ==
    \/ CallDetectBatch
    \/ CallCreateFilmstrip
    \/ CallDetectSingle
    \/ ResetCrossChunkTracking
    \/ DetectorReset

SpecCrossChunk == InitCrossChunk /\ [][NextCrossChunk]_vars

\* C24: with cross-batch mode enabled, after every detect_batch call on a
\* non-empty batch (of any length, 1 included) the retained frame is the
\* last frame of that batch, and index 0 of the answer is flagged exactly
\* when the last frame of the previous batch and the first frame of this
\* batch differ beyond the threshold; with no retained frame index 0 is
\* false.
C24_CrossBatchContinuity ==
    LET c == call.last_call
        d == call.shot_detector
    IN  (/\ call.op = "cross_chunk"
         /\ c.kind = "detect_batch"
         /\ d.enable_cross_chunk
         /\ c.frames # <<>>) =>
            /\ d.last_frame = c.frames[Len(c.frames)]
            /\ c.changes[1] <=>
                   /\ c.previous_last # NoFrame
                   /\ CompareFrames(d.method, c.previous_last, c.frames[1],
                                    d.threshold)

\* a batch of one frame after a batch that ended on a different frame
C24_SingleFrameBatch ==
    /\ call.op = "cross_chunk"
    /\ call.last_call.kind = "detect_batch"
    /\ call.shot_detector.enable_cross_chunk
    /\ Len(call.last_call.frames) = 1
    /\ call.last_call.previous_last # NoFrame
    /\ call.shot_detector.last_frame # call.last_call.frames[1]

\* C26: after FilmstripProcessor.reset_cross_chunk_tracking the next
\* create_filmstrip with shot detection does not report index 0 as a shot
\* change, whatever filmstrips were created before; and after
\* ShotChangeDetector.reset the first detect_single and index 0 of the
\* first detect_batch are false.
C26_ResetStartsCleanly ==
    LET c == call.last_call
    IN  (call.op = "cross_chunk" /\ c.frames # <<>>) =>
            /\ (c.kind = "create_filmstrip" /\
                c.first_after = "reset_cross_chunk_tracking") => ~c.changes[1]
            /\ c.first_after = "reset" => ~c.changes[1]

\* the part about ShotChangeDetector.reset alone
C26_DetectorResetClears ==
    LET c == call.last_call
    IN  (call.op = "cross_chunk" /\ c.frames # <<>> /\ c.first_after = "reset")
            => ~c.changes[1]

\* a detection has followed ShotChangeDetector.reset
C26_AfterDetectorReset ==
    /\ call.op = "cross_chunk"
    /\ call.last_call.first_after = "reset"
    /\ Len(call.last_call.frames) = 2
    /\ call.last_call.changes = <<FALSE, TRUE>>

\* ==================================================================
\* Validation inside _perform_fusion_analysis: merge, detect overlaps,
\* store.  Chunks are analysed in order; the first answer opens chapter
\* h1 with some topics, later answers add a topic to it or move the end of
\* topic t1.  (Finalization and pruning, which follow the store and do not
\* write analysis_results, are followed under Spec.)
\* ==================================================================
\* _detect_overlapping_topics(analysis_result, chunk_id): the structure as
\* the call leaves it and the warnings logged
DetectOverlappingTopicsOn_sorting(chapters) ==
    [chapters |-> [i \in 1 .. Len(chapters) |->
                      [chapters[i] EXCEPT !.topics = SortedByStart(@)]],
     warnings |-> DetectOverlappingTopics(chapters)]
DetectOverlappingTopicsOn(chapters) ==
    [chapters |-> chapters,
     warnings |-> DetectOverlappingTopics(chapters)]

\* the answers for chunk c when T topics have been issued
ValidatedAnswers(c, T) ==
    IF c = 0
    THEN UNION {NewTopicAnswers(n) : n \in 1 .. MaxTopics - 1}
    ELSE {<<UpdateTopicAct(1, {"end_time"}, 0, e, <<>>)>> : e \in TopicTimes \ {0}}
         \cup IF T < MaxTopics
              THEN {<<NewTopicAct(T + 1, 1, r[1], r[2], <<c>>)>> : r \in TopicRanges}
              ELSE {}

InitValidate ==
    /\ InitPipeline
    /\ keep_n_chapters = None
    /\ call = [op |-> "validate", analysis_results |-> <<>>, next_chunk |-> 0,
               merged |-> <<>>, warnings |-> {}, warned_before |-> FALSE]

\* lines 683-692 for the next chunk: json.loads, _process_incremental_updates,
\* _detect_overlapping_topics, self.analysis_results[chunk_id] = analysis_result
ValidateChunk ==
    /\ call.op = "validate"
    /\ call.next_chunk < NumChunks
    /\ LET c == call.next_chunk
           results == call.analysis_results
           T == IF c = 0 THEN 0
                ELSE Cardinality(TopicIdsOf(LatestChapters(results)))
       IN  \E actions \in ValidatedAnswers(c, T) :
               LET analysis_result == ProcessIncrementalUpdates(results, c, actions)
                   v == DetectOverlappingTopicsOn(analysis_result.chapters)
                   stored == [analysis_result EXCEPT !.chapters = v.chapters]
               IN  call' = [call EXCEPT
                       !.analysis_results = (c :> stored) @@ results,
                       !.next_chunk = c + 1,
                       !.merged = analysis_result.chapters,
                       !.warnings = v.warnings,
                       !.warned_before = @ \/ call.warnings # {}]
    /\ PipelineIdle

NextValidate == ValidateChunk

SpecValidate == InitValidate /\ [][NextValidate]_vars

\* C25: _detect_overlapping_topics only reports: the result stored for a
\* chunk is the merged structure itself, every chapter and topic with the
\* start_time, end_time, order and membership the merge gave it, whether or
\* not an overlap was found; the result is stored all the same, and chunks
\* that follow a chunk with an overlap are analysed and stored too.
C25_DetectAndReportOnly ==
    (call.op = "validate" /\ call.next_chunk > 0) =>
        LET c == call.next_chunk - 1
        IN  /\ c \in DOMAIN call.analysis_results
            /\ call.analysis_results[c].chapters = call.merged
            /\ \A k \in 0 .. c : k \in DOMAIN call.analysis_results

\* an overlap was reported for an earlier chunk and for this one, whose
\* topics are stored out of start_time order, overlap included
C25_Witness ==
    /\ call.op = "validate" /\ call.next_chunk >= 2
    /\ call.warned_before /\ call.warnings # {}
    /\ LET topics == LatestChapters(call.analysis_results)[1].topics
       IN  /\ Len(topics) >= 2
           /\ topics[1].start_time > topics[2].start_time
           /\ topics[2].end_time > topics[1].start_time

\* ==================================================================
\* Conversation history across failures (under Spec)
\* ==================================================================
\* C27: after every completed _perform_fusion_analysis, whether the model
\* call succeeded, raised, or gave unparsable text, the history is a
\* sequence of (user, assistant) pairs (as many user as assistant
\* messages) and no stored user message still carries the filmstrip image
\* and the cache-control marker.
C27_HistoryWellFormed ==
    (\A w \in Workers : ~InCall(w)) =>
        /\ PairsOK(messages)
        /\ \A i \in 1 .. Len(messages) : ~messages[i].image

\* the same as long as every analysis so far was answered and parsed
C27_WellFormedWithoutError ==
    ((\A w \in Workers : ~InCall(w)) /\ ~hist.failed) =>
        /\ Len(messages) % 2 = 0
        /\ \A i \in 1 .. Len(messages) : ~messages[i].image

\* ==================================================================
\* The cumulative structure and gaps in chunk ids (under Spec)
\* ==================================================================
\* the chunk ids whose result is written by this step
StoredNow ==
    {c \in DOMAIN analysis_results' :
        c \notin DOMAIN analysis_results \/ analysis_results[c] # analysis_results'[c]}

\* C28: the result stored for chunk n extends the latest earlier result:
\* also when chunk n-1 was never analysed it holds every chapter and topic
\* of the latest earlier result; and the latest entry of analysis_results
\* never has fewer chapters than an earlier entry.
C28_StructureSurvivesGaps ==
    /\ [](\A c \in DOMAIN analysis_results :
              Len(analysis_results[c].chapters)
                  <= Len(LatestChapters(analysis_results)))
    /\ [][\A c \in StoredNow :
              LET earlier == {k \in DOMAIN analysis_results : k < c}
              IN  earlier # {} =>
                      IdsOf(analysis_results[Max(earlier)].chapters)
                          \subseteq IdsOf(analysis_results'[c].chapters)]_vars

\* the same for a chunk whose predecessor has a stored result: holds
C28_ExtendsPredecessor ==
    [][\A c \in StoredNow :
           (c - 1) \in DOMAIN analysis_results =>
               IdsOf(analysis_results[c - 1].chapters)
                   \subseteq IdsOf(analysis_results'[c].chapters)]_vars

\* ==================================================================
\* Finalized chapters and their clips.  Chunks are analysed in order, every
\* answer parses and is stored; the clip thread started by
\* _create_chapter_clips is followed to its end within the step that
\* starts it.  A clip is named by the chapter's place in the finalized list
\* (and the topic's place in the chapter) and keeps the -ss and -t given
\* to ffmpeg.
\* ==================================================================
\* answers the model gives once chapters are finalized, besides those of
\* ActionsOf: update_topic moving the end of a topic of a finalized chapter
\* to the end of this chunk, new_topic added to a finalized chapter
LateKinds == {"late_update", "late_topic"}

LateActions(kind, c, T, finalized) ==
    LET s == c * chunk_duration
        e == s + chunk_duration
    IN  IF kind = "late_update"
        THEN {<<UpdateTopicAct(t, {"end_time"}, 0, e, <<>>)>> :
                 t \in TopicIdsOf(finalized)}
        ELSE {<<NewTopicAct(T + 1, h, s, e, <<c>>)>> :
                 h \in ChapterIdsOf(finalized)}

\* the clips one run of create_clips_background adds to those on disk
ClipsCreated(finalized, clips) ==
    LET exists(name) == \E f \in clips : f.name = name
        chapter_clips ==
            {[name |-> <<"chapter", i>>,
              start_time |-> finalized[i].topics[1].start_time,
              duration |-> finalized[i].topics[Len(finalized[i].topics)].end_time
                               - finalized[i].topics[1].start_time] :
                 i \in {k \in 1 .. Len(finalized) :
                           /\ finalized[k].topics # <<>>
                           /\ ~exists(<<"chapter", k>>)}}
        topic_clips ==
            {[name |-> <<"topic", p[1], p[2]>>,
              start_time |-> finalized[p[1]].topics[p[2]].start_time,
              duration |-> finalized[p[1]].topics[p[2]].end_time
                               - finalized[p[1]].topics[p[2]].start_time] :
                 p \in {q \in TopicPositions(finalized) :
                           LET topic == finalized[q[1]].topics[q[2]]
                           IN  /\ topic.end_time - topic.start_time > 0
                               /\ topic.start_time >= 0
                               /\ ~exists(<<"topic", q[1], q[2]>>)}}
    IN  clips \cup chapter_clips \cup topic_clips

InitFrozen ==
    /\ InitPipeline
    /\ keep_n_chapters = None
    /\ call = [op |-> "frozen", analysis_results |-> <<>>,
               finalized_chapters |-> <<>>, clips |-> {}, next_chunk |-> 0,
               issued_chapters |-> 0, issued_topics |-> 0, stopped |-> FALSE]

\* the answer for the next chunk is merged and stored,
\* update_finalized_chapters runs and, when it starts one, the clip thread
FrozenMergeWith(actions) ==
    LET c == call.next_chunk
        result == ProcessIncrementalUpdates(call.analysis_results, c, actions)
        results2 == (c :> result) @@ call.analysis_results
        uf == UpdateFinalizedChapters(results2, call.finalized_chapters,
                                      <<>>, None)
    IN  call' = [call EXCEPT
            !.analysis_results = results2,
            !.finalized_chapters = uf.finalized,
            !.clips = IF uf.clips THEN ClipsCreated(uf.finalized, @) ELSE @,
            !.next_chunk = c + 1,
            !.issued_chapters = @ + CountType(actions, "new_chapter"),
            !.issued_topics = @ + CountType(actions, "new_topic")]

\* an answer of one of the kinds of ActionsOf
FrozenMerge ==
    /\ call.op = "frozen" /\ ~call.stopped
    /\ call.next_chunk < NumChunks
    /\ \E kind \in ParsedKinds :
           /\ KindPossible(kind, call.next_chunk, call.issued_chapters,
                           call.issued_topics)
           /\ FrozenMergeWith(ActionsOf(kind, call.next_chunk,
                                        call.issued_chapters, call.issued_topics))
    /\ PipelineIdle

\* an answer that touches a finalized chapter
FrozenLateMerge ==
    /\ call.op = "frozen" /\ ~call.stopped
    /\ call.next_chunk < NumChunks
    /\ \E kind \in LateKinds :
       \E actions \in LateActions(kind, call.next_chunk, call.issued_topics,
                                  call.finalized_chapters) :
           FrozenMergeWith(actions)
    /\ PipelineIdle

\* finalize_all_chapters at shutdown, with its clip thread
FrozenFinalizeAll ==
    /\ call.op = "frozen" /\ ~call.stopped
    /\ LET fa == FinalizeAllChapters(call.analysis_results,
                                     call.finalized_chapters)
       IN  call' = [call EXCEPT
               !.finalized_chapters = fa.finalized,
               !.clips = IF fa.clips THEN ClipsCreated(fa.finalized, @) ELSE @,
               !.stopped = TRUE]
    /\ PipelineIdle

NextFrozen == FrozenMerge \/ FrozenLateMerge \/ FrozenFinalizeAll

SpecFrozen == InitFrozen /\ [][NextFrozen]_vars

\* the clips on disk match the topic times of the latest result
ClipsMatchLatest ==
    LET chapters == LatestChapters(call.analysis_results)
    IN  \A f \in call.clips :
            LET i == f.name[2]
                topics == chapters[i].topics
            IN  IF f.name[1] = "chapter"
                THEN /\ f.start_time = topics[1].start_time
                     /\ f.start_time + f.duration = topics[Len(topics)].end_time
                ELSE /\ f.start_time = topics[f.name[3]].start_time
                     /\ f.start_time + f.duration = topics[f.name[3]].end_time

\* C29: once a chapter is finalized and its clip extraction started, no
\* later merge adds a topic to it or changes the start_time or end_time of
\* one of its topics, so the clips made at finalization match the chapter's
\* final topic times; and the finalized set never shrinks.
C29_FinalizedIsFrozen ==
    /\ [](call.op = "frozen" => ClipsMatchLatest)
    /\ [][call.op = "frozen" =>
            /\ \A i \in 1 .. Len(call.finalized_chapters) :
                   LatestChapters(call.analysis_results')[i].topics
                       = call.finalized_chapters[i].topics
            /\ ChapterIdsOf(call.finalized_chapters)
                   \subseteq ChapterIdsOf(call.finalized_chapters')]_vars

\* the part that holds when every chunk has a stored result: the finalized
\* list only grows and keeps its order
C29_FinalizedNeverShrinks ==
    [][call.op = "frozen" =>
          /\ Len(call.finalized_chapters) <= Len(call.finalized_chapters')
          /\ ChapterIdSeq(call.finalized_chapters)
                 = SubSeq(ChapterIdSeq(call.finalized_chapters'), 1,
                          Len(call.finalized_chapters))]_vars

\* a clip of chapter 1 that is shorter than the chapter has become
C29_StaleClip ==
    /\ call.op = "frozen" /\ call.stopped
    /\ \E f \in call.clips :
           /\ f.name = <<"chapter", 1>>
           /\ f.start_time + f.duration
                  < LatestChapters(call.analysis_results)[1].topics[
                        Len(LatestChapters(call.analysis_results)[1].topics)].end_time

\* ==================================================================
\* Hand-off of a chunk by ChunkMonitor (_monitor_loop, _process_chunk)
\* with a fusion analyzer and a filmstrip processor attached; the queue is
\* followed without its consumer.
\* ==================================================================
\* create_filmstrip_from_video gives the filmstrip ("made"), finds no frame
\* to extract and returns [] ("no_frames"), or raises ("raised")
FilmstripOutcomes == {"made", "no_frames", "raised"}

InitHandoff ==
    /\ InitPipeline
    /\ keep_n_chapters = None
    /\ call = [op |-> "handoff", files |-> 0, processed_chunks |-> {},
               chunk_count |-> 0, analysis_queue |-> <<>>,
               filmstrip |-> [c \in ChunkIds |-> "none"],
               pc |-> "for", chunk_id |-> NoRequest]

\* the transcoder finishes the next chunk file
HandoffNewFile ==
    /\ call.op = "handoff"
    /\ call.files < NumChunks
    /\ call' = [call EXCEPT !.files = @ + 1]
    /\ PipelineIdle

\* lines 150-152: a file not yet processed passes _verify_chunk_ready
HandoffVerified ==
    /\ call.op = "handoff" /\ call.pc = "for"
    /\ \E c \in (0 .. call.files - 1) \ call.processed_chunks :
           call' = [call EXCEPT !.pc = "process", !.chunk_id = c]
    /\ PipelineIdle

\* _process_chunk and lines 154-155: the filmstrip is made or not; unless
\* that raised, the analysis is queued; the handler of _process_chunk
\* swallows the exception; the chunk is marked processed and counted
HandoffProcessChunk ==
    /\ call.op = "handoff" /\ call.pc = "process"
    /\ \E outcome \in FilmstripOutcomes :
           LET c == call.chunk_id
           IN  call' = [call EXCEPT
                   !.filmstrip[c] = outcome,
                   !.analysis_queue =
                       IF outcome = "raised" THEN @
                       ELSE QueueAnalysis(@, <<c>>),
                   !.processed_chunks = @ \cup {c},
                   !.chunk_count = IF @ > c + 1 THEN @ ELSE c + 1,
                   !.pc = "for", !.chunk_id = NoRequest]
    /\ PipelineIdle

NextHandoff == HandoffNewFile \/ HandoffVerified \/ HandoffProcessChunk

SpecHandoff == InitHandoff /\ [][NextHandoff]_vars

\* the requests queued for chunk c
QueuedFor(c) ==
    {i \in 1 .. Len(call.analysis_queue) : call.analysis_queue[i].chunk_id = c}

\* C30: every chunk id in processed_chunks (and counted in chunk_count) has
\* been queued for fusion analysis exactly once, with start_time =
\* chunk_id * chunk_duration and end_time = start_time + chunk_duration; a
\* chunk whose filmstrip creation failed is not marked processed.
C30_ProcessedMeansHandedOff ==
    call.op = "handoff" =>
        /\ \A c \in call.processed_chunks :
               /\ Cardinality(QueuedFor(c)) = 1
               /\ \A i \in QueuedFor(c) :
                      /\ call.analysis_queue[i].start_time = c * chunk_duration
                      /\ call.analysis_queue[i].end_time
                             = c * chunk_duration + chunk_duration
        /\ \A c \in ChunkIds :
               call.filmstrip[c] \in {"no_frames", "raised"}
                   => c \notin call.processed_chunks

\* what does hold: a chunk is queued at most once, only if marked processed
\* or being processed, with the times of its chunk id
C30_QueuedAtMostOnce ==
    call.op = "handoff" =>
        /\ \A c \in ChunkIds : Cardinality(QueuedFor(c)) <= 1
        /\ \A i \in 1 .. Len(call.analysis_queue) :
               LET r == call.analysis_queue[i]
               IN  /\ r.chunk_id \in call.processed_chunks
                   /\ r.start_time = r.chunk_id * chunk_duration
                   /\ r.end_time = r.start_time + chunk_duration
        /\ call.chunk_count =
               IF call.processed_chunks = {} THEN 0
               ELSE Max(call.processed_chunks) + 1

\* a chunk marked processed and counted that was never queued
C30_ProcessedNotQueued ==
    /\ call.op = "handoff"
    /\ \E c \in call.processed_chunks :
           /\ QueuedFor(c) = {}
           /\ call.filmstrip[c] = "raised"
           /\ call.chunk_count = c + 1

====
